---------------------------- MODULE Spec2Model ----------------------------
(***************************************************************************)
(* A model of the simulation engine of dream-research:                     *)
(*   - MonteCarloAnalyzer.run_simulation_async, the Metropolis chain       *)
(*     (flows/core/monte_carlo.py, flows/core/energy_calculator.py),       *)
(*   - LLMClient.generate / generate_async and the response cache          *)
(*     (flows/core/llm_client.py),                                         *)
(*   - BatchProcessor.process_batches and its retry loop                   *)
(*     (flows/core/batch_processor.py),                                    *)
(*   - PersonalityPhaseExperiment._run_temperature_sample                  *)
(*     (flows/experiments/run_phase_experiment.py),                        *)
(*   - LLMClient.batch_generate (flows/core/llm_client.py),                *)
(*   - PersonalityGenome.mutate and PersonalityEvolution._crossover        *)
(*     (flows/core/personality_genetics.py),                               *)
(*   - PersonalityEvolution.initialize_population and evolve               *)
(*     (flows/core/personality_evolution.py),                              *)
(*   - the three phase classifiers (flows/core/thermodynamics.py,          *)
(*     monte_carlo.py, personality_dreams.py),                             *)
(*   - run_experiment and _save_results                                    *)
(*     (flows/experiments/run_phase_experiment.py),                        *)
(*   - the personality snapshots of the chain and MCState.to_dict /        *)
(*     from_dict (flows/core/monte_carlo.py),                              *)
(*   - GeneSegmenter.segment_genes                                         *)
(*     (src/gene_identification/gene_segmenter.py).                        *)
(* Temperatures are integers in hundredths (0.8 is 80).  Energies are      *)
(* floats: a record [k, v] with k one of "fin", "inf", "ninf", "nan".      *)
(***************************************************************************)
EXTENDS Integers, Sequences, FiniteSets, TLC

(***************************************************************************)
(* Bounds of the model.                                                    *)
(***************************************************************************)
MaxSched == 2
MaxSteps == 2
MaxPrompts == 2
MaxBatch == 2
MaxEnergy == 1
MaxCalls == 2
MaxItems == 3
MaxBatchSize == 2
MaxRetries == 4

VARIABLES
    \* ---- MonteCarloAnalyzer.run_simulation_async ----
    temperature_schedule,  \* the argument: [none, temps], none for the default None
    schedule,              \* the schedule the loops iterate (after the None default)
    prompts,               \* the argument: a sequence of prompts
    n_steps,               \* the argument
    mc_batch_size,         \* the argument batch_size
    steps_per_temp,        \* n_steps // len(temperature_schedule)
    states,                \* the list of MCState that is returned
    current_state,
    proposed_state,
    mc_pos,                \* position of the three nested loops: [ti, st, pi]
    mc_pc,                 \* "start", "loop", "await", "decide", "returned", "raised"
    mc_error,              \* the exception that left run_simulation_async, or "none"
    mc_inflight,           \* generation requests awaited and not yet answered
    mc_log,                \* for every appended entry, the loop position that appended it
    \* ---- LLMClient ----
    cache,                 \* self.cache: cache key -> text
    cache_file,            \* the contents of llm_cache.json
    calls,                 \* the generate / generate_async calls: call -> record
    \* ---- BatchProcessor.process_batches ----
    config,                \* BatchConfig
    items,                 \* the argument: the list of items
    batches,               \* the slices of items
    tasks,                 \* one _process_batch_with_retries coroutine per batch
    results,               \* the list process_batches returns
    bp_pc,                 \* "start", "gather", "returned", "raised"
    bp_error,              \* the exception that left process_batches, or "none"
    \* ---- LLMClient.batch_generate ----
    bg_prompts,            \* the argument: the list of prompts
    bg_batch_size,         \* the argument batch_size
    bg_i,                  \* the loop variable i of range(0, len(prompts), batch_size)
    bg_completed,          \* the generate_async tasks of the batch that have
                           \* returned, in the order they returned
    bg_responses,          \* the list responses
    bg_pc,                 \* "start", "gather", "returned", "raised"
    \* ---- PersonalityPhaseExperiment._run_temperature_sample ----
    smp_args,              \* the arguments: temperature, prompts, n_steps, batch_size
    smp_i,                 \* iterations of the loop over range(batch_size) done
    smp_states,            \* the local list states
    smp_result,            \* the list returned
    smp_pc,                \* "start", "loop", "await_chain", "returned",
                           \* "collected", "saved", "raised"
    all_states,            \* run_experiment: the local list all_states
    smp_point,             \* run_experiment: temperature points done
    output_states,         \* the "states" of the JSON file _save_results wrote
    \* ---- PersonalityGenome ----
    gn_lists,              \* the heap of gene lists: reference -> sequence of Gene
    gn_genomes,            \* the PersonalityGenome objects: id -> chromosomes, a
                           \* mapping trait -> Chromosome whose genes is a reference
    gn_slots,              \* the genomes appended to a population, in order
    gn_op,                 \* the last operation: kind, parents, temp, result
    \* ---- PersonalityEvolution ----
    population_size,       \* self.population_size
    selection_pressure,    \* self.selection_pressure, in hundredths
    ev_args,               \* the arguments of evolve: generations, target_fitness
    population,            \* self.population
    generation,            \* self.generation, the loop variable gen of evolve
    history,               \* the local list history of evolve
    parents,               \* the local parents: positions of self.population
    new_population,        \* the local list new_population
    ev_i,                  \* iterations of the loop of initialize_population done
    ev_pc,                 \* "new", "initializing", "ready", "loop", "select",
                           \* "breed", "returned", "raised"
    ev_error,               \* the exception that left evolve, or "none"
    \* ---- the phase classifiers ----
    ph_input,              \* the arguments: coherence and temperature, in hundredths
    ph_phase,               \* the label each classifier returned, or "none":
                           \* thermodynamics, chain, dream
    \* ---- personality snapshots of the chain, MCState.to_dict / from_dict ----
    sn_lists,              \* the heap of goals lists: reference -> sequence of goals
    sn_dicts,              \* the heap of personality dicts: reference -> the dict,
                           \* whose I_G is a reference into sn_lists
    sn_objs,               \* the MCState objects: id -> the state, whose
                           \* personality is a reference into sn_dicts
    sn_chain,              \* the list states of the run: ids of MCState objects
    sn_current,            \* current_state: the id of an MCState object
    sn_source,             \* the state to_dict was called on, or 0
    sn_dump,               \* the dict to_dict returned: << >> or <<dict>>
    sn_loaded,             \* the state from_dict returned, or 0
    sn_pc,                  \* "start", "loop", "returned", "raised"
    \* ---- GeneSegmenter.segment_genes ----
    sg_tokens,             \* zip(tokens, predictions): the tokens with their labels
    sg_genes,              \* the list returned; a gene is the sequence of the
                           \* tokens that " ".join joins
    sg_pc                  \* "start", "returned"

mc_vars == <<temperature_schedule, schedule, prompts, n_steps, mc_batch_size,
             steps_per_temp, states, current_state, proposed_state, mc_pos,
             mc_pc, mc_error, mc_inflight, mc_log>>

cl_vars == <<cache, cache_file, calls>>

bp_vars == <<config, items, batches, tasks, results, bp_pc, bp_error>>

bg_vars == <<bg_prompts, bg_batch_size, bg_i, bg_completed, bg_responses, bg_pc>>

smp_vars == <<smp_args, smp_i, smp_states, smp_result, smp_pc, all_states,
              smp_point, output_states>>

gn_vars == <<gn_lists, gn_genomes, gn_slots, gn_op>>

ev_vars == <<population_size, selection_pressure, ev_args, population, generation,
             history, parents, new_population, ev_i, ev_pc, ev_error>>

ph_vars == <<ph_input, ph_phase>>

sn_vars == <<sn_lists, sn_dicts, sn_objs, sn_chain, sn_current, sn_source,
            sn_dump, sn_loaded, sn_pc>>

sg_vars == <<sg_tokens, sg_genes, sg_pc>>

vars == <<mc_vars, cl_vars, bp_vars, bg_vars, smp_vars, gn_vars, ev_vars, ph_vars, sn_vars, sg_vars>>

----------------------------------------------------------------------------
(***************************************************************************)
(* Floats.                                                                 *)
(***************************************************************************)
Fin(v) == [k |-> "fin", v |-> v]
PInf == [k |-> "inf", v |-> 0]
NInf == [k |-> "ninf", v |-> 0]
NaN == [k |-> "nan", v |-> 0]

\* a - b on floats
FSub(a, b) ==
    IF a.k = "nan" \/ b.k = "nan" THEN NaN
    ELSE IF a.k = "fin" /\ b.k = "fin" THEN Fin(a.v - b.v)
    ELSE IF a.k = b.k THEN NaN
    ELSE IF a.k = "inf" \/ b.k = "ninf" THEN PInf
    ELSE NInf

\* x <= 0 on floats: false for NaN
FLeZero(x) == \/ x.k = "ninf"
              \/ x.k = "fin" /\ x.v <= 0

FIsFinite(x) == x.k = "fin"

----------------------------------------------------------------------------
(***************************************************************************)
(* EnergyCalculator: the text metrics and the energy of a response.  A     *)
(* response is the sequence of its words (response.split()).               *)
(***************************************************************************)
Responses == {<< >>, <<"a", "b", "a">>}

WordSet(response) == {response[i] : i \in 1..Len(response)}

\* _measure_coherence: unique words / total words as the pair [num, den];
\* 0.0 for a response without words
MeasureCoherence(response) ==
    IF Len(response) = 0 THEN [num |-> 0, den |-> 1]
    ELSE [num |-> Cardinality(WordSet(response)), den |-> Len(response)]

\* -ln(num/den) in thousandths, for the ratios the responses produce
NegLogMilli(c) ==
    IF c.num = c.den THEN 0
    ELSE IF 2 * c.num = c.den THEN 693
    ELSE IF 3 * c.num = c.den THEN 1099
    ELSE 405

\* _calculate_entropy: Shannon entropy of the word frequencies, in thousandths,
\* for responses of at most three words over two distinct words
CalculateEntropy(response) ==
    IF Len(response) = 0 THEN 0
    ELSE IF Cardinality(WordSet(response)) = 1 THEN 0
    ELSE IF Len(response) = 2 THEN 693
    ELSE 637

\* enthalpy = -np.log(coherence) if coherence > 0 else float('inf')
Enthalpy(c) == IF c.num > 0 THEN Fin(NegLogMilli(c)) ELSE PInf

\* The energies calculate_energy can return for a response: enthalpy minus
\* temperature * entropy plus a Gaussian noise of positive deviation is any
\* finite number when the enthalpy is finite, and infinity when it is not.
EnergyValues == {Fin(v) : v \in (-MaxEnergy)..MaxEnergy}
Energies(response) ==
    IF FIsFinite(Enthalpy(MeasureCoherence(response))) THEN EnergyValues ELSE {PInf}

----------------------------------------------------------------------------
(***************************************************************************)
(* MonteCarloAnalyzer                                                      *)
(***************************************************************************)
CoherentToSemi == 80
SemiToChaotic == 150
InitialTemperature == 10
LinspaceStart == 10
LinspaceStop == 200

TempValues == {50, 100, 200}
Personality == "personality"

\* the attributes MonteCarloAnalyzer.__init__ sets on the analyzer
AnalyzerAttrs == {"thermodynamics", "llm", "energy_calculator", "personality_dims"}

\* _determine_phase(temperature, coherence)
DeterminePhase(temperature, coherence) ==
    IF temperature < CoherentToSemi THEN "coherent"
    ELSE IF temperature < SemiToChaotic THEN "semi-coherent"
    ELSE "chaotic"

\* _initialize_state
InitializeState(personality) ==
    [temperature |-> InitialTemperature, energy |-> Fin(0), entropy |-> 0,
     enthalpy |-> Fin(0), coherence |-> [num |-> 0, den |-> 1],
     personality |-> personality, phase |-> "coherent", response |-> << >>]

\* _create_state_from_response, with the energy the noise draw produced
CreateStateFromResponse(response, personality, temperature, energy) ==
    [temperature |-> temperature, energy |-> energy,
     entropy |-> CalculateEntropy(response),
     enthalpy |-> Enthalpy(MeasureCoherence(response)),
     coherence |-> MeasureCoherence(response),
     personality |-> personality,
     phase |-> DeterminePhase(temperature, MeasureCoherence(response)),
     response |-> response]

\* a plausible slip: the downhill test written strictly
AcceptState_Strict(delta_E, temperature, draw) ==
    IF delta_E.k = "ninf" \/ (delta_E.k = "fin" /\ delta_E.v < 0) THEN "accept"
    ELSE IF "k_B" \notin AnalyzerAttrs THEN "AttributeError"
    ELSE IF draw THEN "accept" ELSE "reject"

\* _accept_state: True when delta_E <= 0; otherwise the comparison of a random
\* draw with exp(-delta_E / (self.k_B * temperature)), where reading self.k_B
\* raises AttributeError on an object that has no such attribute.  draw is the
\* outcome of the comparison.
AcceptState(delta_E, temperature, draw) ==
    IF FLeZero(delta_E) THEN "accept"
    ELSE IF "k_B" \notin AnalyzerAttrs THEN "AttributeError"
    ELSE IF draw THEN "accept" ELSE "reject"

\* np.linspace(0.1, 2.0, n), in hundredths
Linspace(n) ==
    [i \in 1..n |-> IF n = 1 THEN LinspaceStart
                    ELSE LinspaceStart + ((i - 1) * (LinspaceStop - LinspaceStart)) \div (n - 1)]

SeqsUpTo(S, n) == UNION {[1..m -> S] : m \in 0..n}

\* a plausible slip: the loops nested the other way round (prompts outermost)
NextPos_PromptOuter(pos) ==
    IF pos.ti < Len(schedule) THEN [pos EXCEPT !.ti = pos.ti + 1]
    ELSE IF pos.st < steps_per_temp THEN [pos EXCEPT !.ti = 1, !.st = pos.st + 1]
    ELSE IF pos.pi < Len(prompts) THEN [ti |-> 1, st |-> 1, pi |-> pos.pi + 1]
    ELSE [ti |-> Len(schedule) + 1, st |-> 1, pi |-> 1]

\* the position after pos in
\*   for temp in temperature_schedule: for step in range(steps_per_temp):
\*       for prompt in prompts
NextPos(pos) ==
    IF pos.pi < Len(prompts) THEN [pos EXCEPT !.pi = pos.pi + 1]
    ELSE IF pos.st < steps_per_temp THEN [pos EXCEPT !.st = pos.st + 1, !.pi = 1]
    ELSE [ti |-> pos.ti + 1, st |-> 1, pi |-> 1]

\* the loops have no iteration left
Exhausted == steps_per_temp = 0 \/ mc_pos.ti > Len(schedule)

Temp == schedule[mc_pos.ti]

\* proposed_state.energy - current_state.energy
DeltaE == FSub(proposed_state.energy, current_state.energy)

NoState == InitializeState(Personality)

mc_Init ==
    /\ temperature_schedule \in
           {[none |-> TRUE, temps |-> << >>]} \cup
           {[none |-> FALSE, temps |-> s] : s \in SeqsUpTo(TempValues, MaxSched)}
    /\ prompts \in {[i \in 1..m |-> i] : m \in 0..MaxPrompts}
    /\ n_steps \in 0..MaxSteps
    /\ mc_batch_size \in 1..MaxBatch
    /\ schedule = << >>
    /\ steps_per_temp = 0
    /\ states = << >>
    /\ current_state = NoState
    /\ proposed_state = NoState
    /\ mc_pos = [ti |-> 1, st |-> 1, pi |-> 1]
    /\ mc_pc = "start"
    /\ mc_error = "none"
    /\ mc_inflight = 0
    /\ mc_log = << >>

\* lines 106-114: the default schedule, the initial state, steps_per_temp
Begin ==
    /\ UNCHANGED <<cl_vars, bp_vars, bg_vars, smp_vars, gn_vars, ev_vars,
                   ph_vars, sn_vars, sg_vars>>
    /\ mc_pc = "start"
    /\ LET sched == IF temperature_schedule.none THEN Linspace(n_steps)
                    ELSE temperature_schedule.temps
       IN /\ schedule' = sched
          /\ IF Len(prompts) = 0
             THEN \* prompts[0]
                  /\ mc_pc' = "raised" /\ mc_error' = "IndexError"
                  /\ UNCHANGED <<states, current_state, steps_per_temp>>
             ELSE /\ states' = <<InitializeState(Personality)>>
                  /\ current_state' = InitializeState(Personality)
                  /\ IF Len(sched) = 0
                     THEN \* n_steps // 0
                          /\ mc_pc' = "raised" /\ mc_error' = "ZeroDivisionError"
                          /\ UNCHANGED steps_per_temp
                     ELSE /\ steps_per_temp' = n_steps \div Len(sched)
                          /\ mc_pc' = "loop" /\ mc_error' = "none"
    /\ UNCHANGED <<temperature_schedule, prompts, n_steps, mc_batch_size,
                   proposed_state, mc_pos, mc_inflight, mc_log>>

\* a plausible slip: the request is started and not awaited
ProcessSinglePrompt_NoAwait ==
    /\ UNCHANGED <<cl_vars, bp_vars, bg_vars, smp_vars, gn_vars, ev_vars,
                   ph_vars, sn_vars, sg_vars>>
    /\ mc_pc = "loop"
    /\ ~Exhausted
    /\ mc_inflight' = mc_inflight + 1
    /\ mc_pos' = NextPos(mc_pos)
    /\ UNCHANGED <<temperature_schedule, schedule, prompts, n_steps,
                   mc_batch_size,
                   steps_per_temp, states, current_state, proposed_state,
                   mc_pc, mc_error, mc_log>>

\* lines 121-127, 166-176: await self._process_single_prompt(...): the request
\* is sent and the coroutine waits for its answer
ProcessSinglePrompt ==
    /\ UNCHANGED <<cl_vars, bp_vars, bg_vars, smp_vars, gn_vars, ev_vars,
                   ph_vars, sn_vars, sg_vars>>
    /\ mc_pc = "loop"
    /\ ~Exhausted
    /\ mc_inflight' = mc_inflight + 1
    /\ mc_pc' = "await"
    /\ UNCHANGED <<temperature_schedule, schedule, prompts, n_steps,
                   mc_batch_size,
                   steps_per_temp, states, current_state, proposed_state,
                   mc_pos, mc_error, mc_log>>

\* the generator answers: lines 130-135 build the proposed state
Respond ==
    /\ UNCHANGED <<cl_vars, bp_vars, bg_vars, smp_vars, gn_vars, ev_vars,
                   ph_vars, sn_vars, sg_vars>>
    /\ mc_pc = "await"
    /\ mc_inflight' = mc_inflight - 1
    /\ \E response \in Responses : \E energy \in Energies(response) :
          proposed_state' = CreateStateFromResponse(
              response, current_state.personality, Temp, energy)
    /\ mc_pc' = "decide"
    /\ UNCHANGED <<temperature_schedule, schedule, prompts, n_steps,
                   mc_batch_size,
                   steps_per_temp, states, current_state, mc_pos, mc_error, mc_log>>

\* the generator call raises (LLMClient.generate_async catches nothing): the
\* exception leaves run_simulation_async
GeneratorRaises ==
    /\ UNCHANGED <<cl_vars, bp_vars, bg_vars, smp_vars, gn_vars, ev_vars,
                   ph_vars, sn_vars, sg_vars>>
    /\ mc_pc = "await"
    /\ mc_inflight' = mc_inflight - 1
    /\ mc_pc' = "raised"
    /\ mc_error' = "GeneratorError"
    /\ UNCHANGED <<temperature_schedule, schedule, prompts, n_steps,
                   mc_batch_size,
                   steps_per_temp, states, current_state, proposed_state,
                   mc_pos, mc_log>>

\* lines 137-143: the Metropolis decision and the append
Metropolis ==
    /\ UNCHANGED <<cl_vars, bp_vars, bg_vars, smp_vars, gn_vars, ev_vars,
                   ph_vars, sn_vars, sg_vars>>
    /\ mc_pc = "decide"
    /\ \E draw \in BOOLEAN :
        LET decision == AcceptState(DeltaE, Temp, draw)
            next_state == IF decision = "accept" THEN proposed_state ELSE current_state
        IN IF decision = "AttributeError"
           THEN /\ mc_pc' = "raised"
                /\ mc_error' = "AttributeError"
                /\ UNCHANGED <<states, current_state, mc_pos, mc_log>>
           ELSE /\ current_state' = next_state
                /\ states' = Append(states, next_state)
                /\ mc_log' = Append(mc_log, mc_pos)
                /\ mc_pos' = NextPos(mc_pos)
                /\ mc_pc' = "loop"
                /\ UNCHANGED mc_error
    /\ UNCHANGED <<temperature_schedule, schedule, prompts, n_steps,
                   mc_batch_size,
                   steps_per_temp, proposed_state, mc_inflight>>

\* lines 145-146: the loops are over
Return ==
    /\ UNCHANGED <<cl_vars, bp_vars, bg_vars, smp_vars, gn_vars, ev_vars,
                   ph_vars, sn_vars, sg_vars>>
    /\ mc_pc = "loop"
    /\ Exhausted
    /\ mc_pc' = "returned"
    /\ UNCHANGED <<temperature_schedule, schedule, prompts, n_steps,
                   mc_batch_size,
                   steps_per_temp, states, current_state, proposed_state,
                   mc_pos, mc_error, mc_inflight, mc_log>>

----------------------------------------------------------------------------
(***************************************************************************)
(* Properties of the Metropolis chain.                                     *)
(***************************************************************************)
Last(s) == s[Len(s)]

\* C1: in every step, when deltaE = proposed_state.energy -
\* current_state.energy is <= 0 the proposed state is accepted: it becomes
\* the current state and it is the entry appended to the chain for the step.
C1_DownhillAccepted ==
    [][(mc_pc = "decide" /\ FLeZero(DeltaE))
         => (/\ current_state' = proposed_state
             /\ states' = Append(states, proposed_state))]_vars

\* a downhill step has happened: the last entry is the proposed state, and its
\* energy is not above the energy of the entry before it
C1_Witness ==
    /\ mc_pc = "loop"
    /\ Len(states) >= 2
    /\ Last(states) = proposed_state
    /\ FLeZero(FSub(Last(states).energy, states[Len(states) - 1].energy))
    /\ current_state = proposed_state

\* C2: for every finite deltaE > 0 and T > 0 the acceptance decision completes
\* and returns accept or reject, never a fault.
C2_UphillDecides ==
    (mc_pc = "raised" /\ mc_error = "AttributeError")
        => ~(DeltaE.k = "fin" /\ DeltaE.v > 0 /\ Temp > 0)

\* C3: every step appends exactly one entry, and after the step the last entry
\* is the current state: the candidate if accepted, else the previous current
\* state.
C3_OneEntryPerStep ==
    [][mc_pc = "decide"
         => (/\ Len(states') = Len(states) + 1
             /\ Last(states') = current_state'
             /\ current_state' \in {proposed_state, current_state})]_vars

ValidInputs ==
    /\ Len(prompts) >= 1
    /\ n_steps >= 1
    /\ temperature_schedule.none \/ Len(temperature_schedule.temps) >= 1

\* C4: for a non-empty schedule, n_steps >= 1 and non-empty prompts, a run that
\* returns has processed each prompt at each temperature at least once.
C4_WholeSchedule ==
    (mc_pc = "returned" /\ ValidInputs)
        => \A t \in 1..Len(schedule) : \A p \in 1..Len(prompts) :
              \E k \in 1..Len(mc_log) : mc_log[k].ti = t /\ mc_log[k].pi = p

C6_Barrier ==
    /\ [](mc_inflight <= mc_batch_size)
    /\ [](mc_pc = "returned" => mc_inflight = 0)
    /\ [][mc_pos'.ti # mc_pos.ti => (mc_inflight = 0 /\ mc_inflight' = 0)]_vars

\* the chain has advanced past a temperature and returned
C6_Witness ==
    /\ mc_pc = "returned"
    /\ Len(schedule) >= 2
    /\ mc_pos.ti > Len(schedule)
    /\ Len(mc_log) >= 2

TotalSteps == Len(schedule) * steps_per_temp * Len(prompts)

\* C7: when every generator call returns, the number of steps of a finished
\* run depends only on the schedule, n_steps and the prompts: no energy or
\* acceptance outcome stops it earlier.
C7_NoEarlyStop ==
    (/\ mc_pc \in {"returned", "raised"}
     /\ mc_error \notin {"GeneratorError", "IndexError", "ZeroDivisionError"})
        => Len(mc_log) = TotalSteps

\* C25: the enthalpy and the energy of the state _create_state_from_response
\* builds from a response, the empty response included, are finite.
C25_FiniteEnthalpyAndEnergy ==
    mc_pc = "decide" =>
        /\ FIsFinite(proposed_state.enthalpy)
        /\ FIsFinite(proposed_state.energy)

----------------------------------------------------------------------------
(***************************************************************************)
(* LLMClient: generate (cached) and generate_async (uncached).             *)
(***************************************************************************)
Calls == 1..MaxCalls
Methods == {"generate", "generate_async"}
ClientPrompts == {"p", "q"}
ClientTemps == {20, 25, 30, 75}
Texts == {"t1", "t2"}
NoText == "<none>"

\* round(x) of Python for x = n / d, d > 0: to the nearest integer, ties to even
RoundHalfEven(n, d) ==
    LET q == n \div d
        r == n % d
    IN IF 2 * r < d THEN q
       ELSE IF 2 * r > d THEN q + 1
       ELSE IF q % 2 = 0 THEN q ELSE q + 1

\* _get_cache_key: temp_bucket = round(temperature * 2) / 2, kept in halves
GetCacheKey(prompt, system_prompt, temperature) ==
    <<prompt, system_prompt, RoundHalfEven(2 * temperature, 100)>>

SystemPrompt == "None"

CallKey(c) == GetCacheKey(calls[c].prompt, SystemPrompt, calls[c].temperature)

EmptyCache == [k \in {} |-> NoText]
\* a plausible slip: an entry already in the cache is kept (setdefault)
Store_FirstWins(c, key, text) ==
    [k \in DOMAIN c \cup {key} |-> IF k \in DOMAIN c THEN c[k] ELSE text]

\* line 65: self.cache[cache_key] = response
Store(c, key, text) == [k \in DOMAIN c \cup {key} |-> IF k = key THEN text ELSE c[k]]

IdleCall == [pc |-> "idle", method |-> "generate", prompt |-> "p", temperature |-> 20,
             backend |-> "none", result |-> NoText]

cl_Init ==
    /\ cache_file \in {EmptyCache} \cup
           {Store(EmptyCache, GetCacheKey(q, SystemPrompt, 20), "t1") : q \in ClientPrompts}
    /\ cache = cache_file
    /\ calls = [c \in Calls |-> IdleCall]

cl_Idle ==
    /\ cache_file = EmptyCache
    /\ cache = EmptyCache
    /\ calls = [c \in {} |-> IdleCall]

\* generate, lines 55-62: the cache check, and on a miss the call of _generate;
\* generate_async, lines 84-94: the call of the backend
CallClient(c) ==
    /\ calls[c].pc = "idle"
    /\ \E m \in Methods : \E q \in ClientPrompts : \E t \in ClientTemps :
         LET key == GetCacheKey(q, SystemPrompt, t)
             call == [calls[c] EXCEPT !.method = m, !.prompt = q, !.temperature = t]
         IN IF m = "generate" /\ key \in DOMAIN cache
            THEN calls' = [calls EXCEPT ![c] =
                             [call EXCEPT !.pc = "returned", !.result = cache[key]]]
            ELSE calls' = [calls EXCEPT ![c] = [call EXCEPT !.pc = "await"]]
    /\ UNCHANGED <<cache, cache_file>>
    /\ UNCHANGED <<mc_vars, bp_vars, bg_vars, smp_vars, gn_vars, ev_vars,
                   ph_vars, sn_vars, sg_vars>>

\* the text a generate call stores and returns
Finish(c, text) ==
    IF calls[c].method = "generate"
    THEN /\ cache' = Store(cache, CallKey(c), text)
         /\ cache_file' = Store(cache, CallKey(c), text)
    ELSE UNCHANGED <<cache, cache_file>>

\* the backend answers: generate stores the text in the cache, saves the cache
\* and returns it (lines 47, 65-68); generate_async returns it (line 96)
BackendReturns(c) ==
    /\ calls[c].pc = "await"
    /\ \E text \in Texts :
         /\ calls' = [calls EXCEPT ![c].pc = "returned", ![c].backend = "ok",
                                   ![c].result = text]
         /\ Finish(c, text)
    /\ UNCHANGED <<mc_vars, bp_vars, bg_vars, smp_vars, gn_vars, ev_vars,
                   ph_vars, sn_vars, sg_vars>>

\* the backend call raises: _generate catches it and returns "" (lines 49-51),
\* which generate caches and returns; generate_async lets it propagate
BackendRaises(c) ==
    /\ calls[c].pc = "await"
    /\ IF calls[c].method = "generate"
       THEN /\ calls' = [calls EXCEPT ![c].pc = "returned", ![c].backend = "fail",
                                      ![c].result = ""]
            /\ Finish(c, "")
       ELSE /\ calls' = [calls EXCEPT ![c].pc = "raised", ![c].backend = "fail"]
            /\ UNCHANGED <<cache, cache_file>>
    /\ UNCHANGED <<mc_vars, bp_vars, bg_vars, smp_vars, gn_vars, ev_vars,
                   ph_vars, sn_vars, sg_vars>>

----------------------------------------------------------------------------
(***************************************************************************)
(* Properties of the client.                                               *)
(***************************************************************************)
ErrorSentinels == {""}

\* C9: a generation call (generate or generate_async) whose backend call fails
\* returns an error-sentinel text to its caller instead of raising.
C9_FailureIsSentinel ==
    \A c \in DOMAIN calls :
        (calls[c].backend = "fail" /\ calls[c].pc \in {"returned", "raised"})
            => (calls[c].pc = "returned" /\ calls[c].result \in ErrorSentinels)

\* the generate calls waiting for the backend with cache key k
AwaitingOn(k) ==
    {c \in DOMAIN calls : /\ calls[c].pc = "await"
                          /\ calls[c].method = "generate"
                          /\ CallKey(c) = k}

\* C14: generate returns the cached text without a backend call when the key
\* is in the cache, and otherwise calls the backend and stores what it returns;
\* the cache entry of a key changes only to the response of a generate call on
\* that key that returns, so once all the concurrent calls on a key have
\* returned, the entry is the response of one of them and stays: every later
\* generate on that key returns exactly that value.
C14_LastWriteWins ==
    /\ [][\A c \in DOMAIN calls :
            (calls[c].pc = "idle" /\ calls'[c].pc # "idle"
             /\ calls'[c].method = "generate") =>
                LET key == GetCacheKey(calls'[c].prompt, SystemPrompt,
                                       calls'[c].temperature)
                IN IF key \in DOMAIN cache
                   THEN /\ calls'[c].pc = "returned"
                        /\ calls'[c].backend = "none"
                        /\ calls'[c].result = cache[key]
                        /\ cache' = cache
                   ELSE calls'[c].pc = "await"]_vars
    /\ [][\A c \in DOMAIN calls :
            (calls[c].pc = "await" /\ calls[c].method = "generate"
             /\ calls'[c].pc # "await") =>
                /\ calls'[c].pc = "returned"
                /\ CallKey(c) \in DOMAIN cache'
                /\ cache'[CallKey(c)] = calls'[c].result]_vars
    /\ [][\A k \in DOMAIN cache' :
            (k \notin DOMAIN cache \/ cache'[k] # cache[k]) =>
                \E c \in AwaitingOn(k) :
                    calls'[c].pc = "returned" /\ calls'[c].result = cache'[k]]_vars
    /\ [][\A k \in DOMAIN cache :
            AwaitingOn(k) = {} => (k \in DOMAIN cache' /\ cache'[k] = cache[k])]_vars

\* two generate calls on the same key both missed the cache and got different
\* texts from the backend; both have returned and the cache holds one of them
C14_Witness ==
    \E c1, c2 \in DOMAIN calls :
        /\ c1 # c2
        /\ calls[c1].method = "generate" /\ calls[c2].method = "generate"
        /\ calls[c1].pc = "returned" /\ calls[c2].pc = "returned"
        /\ calls[c1].backend # "none" /\ calls[c2].backend # "none"
        /\ CallKey(c1) = CallKey(c2)
        /\ calls[c1].temperature # calls[c2].temperature
        /\ calls[c1].result # calls[c2].result
        /\ cache[CallKey(c1)] = calls[c2].result

\* the generate calls on key k whose backend call failed and that have returned
FailedOn(k) ==
    {c \in DOMAIN calls : /\ calls[c].pc = "returned"
                          /\ calls[c].method = "generate"
                          /\ calls[c].backend = "fail"
                          /\ CallKey(c) = k}

\* the generate calls on key k whose backend call succeeded
SucceededOn(k) ==
    {c \in DOMAIN calls : /\ calls[c].pc = "returned"
                          /\ calls[c].method = "generate"
                          /\ calls[c].backend = "ok"
                          /\ CallKey(c) = k}

\* C30: a failed generation is never served from the cache: an entry of the
\* cache changes only to the text of a generate call whose backend call
\* succeeded, and a generate on a key on which only failed calls have
\* returned calls the backend again.
C30_FailureNotCached ==
    /\ [][\A k \in DOMAIN cache' :
            (k \notin DOMAIN cache \/ cache'[k] # cache[k]) =>
                \E c \in AwaitingOn(k) :
                    /\ calls'[c].backend = "ok"
                    /\ calls'[c].result = cache'[k]]_vars
    /\ [][\A c \in DOMAIN calls :
            (/\ calls[c].pc = "idle" /\ calls'[c].pc # "idle"
             /\ calls'[c].method = "generate"
             /\ LET key == GetCacheKey(calls'[c].prompt, SystemPrompt,
                                       calls'[c].temperature)
                IN /\ FailedOn(key) # {}
                   /\ SucceededOn(key) = {}
                   /\ key \notin DOMAIN cache_file \/ cache_file[key] \notin Texts)
                => calls'[c].pc = "await"]_vars

----------------------------------------------------------------------------
(***************************************************************************)
(* BatchProcessor                                                          *)
(***************************************************************************)
RetryDelays == {2}
ConcurrentBatches == {1, 2}
\* what a coroutine returns: None, or a list of results
None == [none |-> TRUE, values |-> << >>]
List(v) == [none |-> FALSE, values |-> v]

\* process_fn(item)
ProcessFn(item) == item + 100

Min(a, b) == IF a < b THEN a ELSE b

\* [items[i:i + batch_size] for i in range(0, len(items), batch_size)]
Batches(its, batch_size) ==
    [b \in 1..((Len(its) + batch_size - 1) \div batch_size) |->
        SubSeq(its, (b - 1) * batch_size + 1, Min(b * batch_size, Len(its)))]

\* a task: pc is "pending", "running", "sleeping", "done" or "raised"; attempt is
\* the loop variable; calls counts the calls of _process_batch; sleeps lists the
\* delays slept; completed lists the positions in the batch whose process_fn
\* call has returned during the current attempt, in the order they returned
NewTask == [pc |-> "pending", attempt |-> 0, calls |-> 0, sleeps |-> << >>,
            completed |-> << >>, result |-> None]

Range(f) == {f[x] : x \in DOMAIN f}

\* a plausible slip: the results are collected as the calls complete
Gather_AsCompleted(values, completed) ==
    [k \in DOMAIN completed |-> values[completed[k]]]

\* asyncio.gather(*tasks): the results of the awaitables, in the order of the
\* arguments, whatever the order they completed in
Gather(values, completed) == values

RECURSIVE Flatten(_)
Flatten(rs) == IF Len(rs) = 0 THEN << >> ELSE Head(rs) \o Flatten(Tail(rs))

bp_Init ==
    /\ config \in [batch_size : 0..MaxBatchSize, max_retries : 0..MaxRetries,
                   retry_delay : RetryDelays, max_concurrent_batches : ConcurrentBatches]
    /\ items \in {[i \in 1..n |-> i] : n \in 0..MaxItems}
    /\ batches = << >>
    /\ tasks = << >>
    /\ results = << >>
    /\ bp_pc = "start"
    /\ bp_error = "none"

bp_Idle ==
    /\ config = [batch_size |-> 1, max_retries |-> 1, retry_delay |-> 1,
                 max_concurrent_batches |-> 1]
    /\ items = << >>
    /\ batches = << >>
    /\ tasks = << >>
    /\ results = << >>
    /\ bp_pc = "idle"
    /\ bp_error = "none"

\* lines 26-38: the batches are sliced, the semaphore is entered once, one
\* coroutine per batch is created and gathered
ProcessBatches ==
    /\ bp_pc = "start"
    /\ IF config.batch_size = 0
       THEN \* range() arg 3 must not be zero
            /\ bp_pc' = "raised" /\ bp_error' = "ValueError"
            /\ UNCHANGED <<batches, tasks>>
       ELSE /\ batches' = Batches(items, config.batch_size)
            /\ tasks' = [b \in DOMAIN Batches(items, config.batch_size) |-> NewTask]
            /\ bp_pc' = "gather"
            /\ UNCHANGED bp_error
    /\ UNCHANGED <<config, items, results>>
    /\ UNCHANGED <<mc_vars, cl_vars, bg_vars, smp_vars, gn_vars, ev_vars,
                   ph_vars, sn_vars, sg_vars>>

\* a plausible slip: the last attempt is tested one too far
LastAttempt_OffByOne(attempt) == attempt = config.max_retries

\* line 56: attempt == self.config.max_retries - 1
LastAttempt(attempt) == attempt = config.max_retries - 1

\* line 51: the loop for attempt in range(max_retries) is entered at attempt, or
\* is over and the coroutine returns None
EnterAttempt(b, attempt) ==
    IF attempt < config.max_retries
    THEN [tasks[b] EXCEPT !.pc = "running", !.attempt = attempt, !.calls = @ + 1,
                          !.completed = << >>]
    ELSE [tasks[b] EXCEPT !.pc = "done", !.result = None]

\* the event loop starts the coroutine of batch b
TaskStart(b) ==
    /\ tasks[b].pc = "pending"
    /\ tasks' = [tasks EXCEPT ![b] = EnterAttempt(b, 0)]
    /\ UNCHANGED <<config, items, batches, results, bp_pc, bp_error>>
    /\ UNCHANGED <<mc_vars, cl_vars, bg_vars, smp_vars, gn_vars, ev_vars,
                   ph_vars, sn_vars, sg_vars>>

\* lines 66-67: one of the process_fn calls of the batch returns
ItemCompletes(b) ==
    /\ tasks[b].pc = "running"
    /\ \E i \in DOMAIN batches[b] \ Range(tasks[b].completed) :
          tasks' = [tasks EXCEPT ![b].completed = Append(@, i)]
    /\ UNCHANGED <<config, items, batches, results, bp_pc, bp_error>>
    /\ UNCHANGED <<mc_vars, cl_vars, bg_vars, smp_vars, gn_vars, ev_vars,
                   ph_vars, sn_vars, sg_vars>>

\* lines 53, 66-69: every process_fn call has returned: _process_batch returns
\* what gather returns
AttemptSucceeds(b) ==
    /\ tasks[b].pc = "running"
    /\ Range(tasks[b].completed) = DOMAIN batches[b]
    /\ tasks' = [tasks EXCEPT ![b].pc = "done",
                              ![b].result =
                                  List(Gather([i \in DOMAIN batches[b] |->
                                                  ProcessFn(batches[b][i])],
                                              tasks[b].completed))]
    /\ UNCHANGED <<config, items, batches, results, bp_pc, bp_error>>
    /\ UNCHANGED <<mc_vars, cl_vars, bg_vars, smp_vars, gn_vars, ev_vars,
                   ph_vars, sn_vars, sg_vars>>

\* lines 54-58: a process_fn call raises, so gather and _process_batch raise;
\* the last attempt re-raises, any other sleeps retry_delay * (attempt + 1)
AttemptFails(b) ==
    /\ tasks[b].pc = "running"
    /\ Range(tasks[b].completed) # DOMAIN batches[b]
    /\ IF LastAttempt(tasks[b].attempt)
       THEN tasks' = [tasks EXCEPT ![b].pc = "raised"]
       ELSE tasks' = [tasks EXCEPT ![b].pc = "sleeping",
                         ![b].sleeps = Append(@, config.retry_delay * (tasks[b].attempt + 1))]
    /\ UNCHANGED <<config, items, batches, results, bp_pc, bp_error>>
    /\ UNCHANGED <<mc_vars, cl_vars, bg_vars, smp_vars, gn_vars, ev_vars,
                   ph_vars, sn_vars, sg_vars>>

\* the sleep is over: the next iteration of the loop
Wake(b) ==
    /\ tasks[b].pc = "sleeping"
    /\ tasks' = [tasks EXCEPT ![b] = EnterAttempt(b, tasks[b].attempt + 1)]
    /\ UNCHANGED <<config, items, batches, results, bp_pc, bp_error>>
    /\ UNCHANGED <<mc_vars, cl_vars, bg_vars, smp_vars, gn_vars, ev_vars,
                   ph_vars, sn_vars, sg_vars>>

\* lines 38-44: every coroutine has returned; the results are flattened
GatherReturns ==
    /\ bp_pc = "gather"
    /\ \A b \in DOMAIN tasks : tasks[b].pc = "done"
    /\ IF \E b \in DOMAIN tasks : tasks[b].result = None
       THEN \* results.extend(None)
            /\ bp_pc' = "raised" /\ bp_error' = "TypeError"
            /\ UNCHANGED results
       ELSE /\ results' = Flatten([b \in DOMAIN tasks |-> tasks[b].result.values])
            /\ bp_pc' = "returned"
            /\ UNCHANGED bp_error
    /\ UNCHANGED <<config, items, batches, tasks>>
    /\ UNCHANGED <<mc_vars, cl_vars, bg_vars, smp_vars, gn_vars, ev_vars,
                   ph_vars, sn_vars, sg_vars>>

\* line 38: a coroutine has raised: gather raises at once, and the exception
\* leaves process_batches; the other coroutines keep running
GatherRaises ==
    /\ bp_pc = "gather"
    /\ \E b \in DOMAIN tasks : tasks[b].pc = "raised"
    /\ bp_pc' = "raised"
    /\ bp_error' = "BatchError"
    /\ UNCHANGED <<config, items, batches, tasks, results>>
    /\ UNCHANGED <<mc_vars, cl_vars, bg_vars, smp_vars, gn_vars, ev_vars,
                   ph_vars, sn_vars, sg_vars>>

----------------------------------------------------------------------------
(***************************************************************************)
(* Properties of the batch processor.                                      *)
(***************************************************************************)
\* C10: for max_retries >= 1, a batch is attempted at most max_retries times;
\* one that fails on every attempt is attempted exactly max_retries times and
\* then raises (it neither sleeps again nor returns); one that succeeds on an
\* attempt returns the results of that attempt; and a coroutine that has
\* returned or raised makes no further attempt.
C10_BoundedRetries ==
    /\ [](config.max_retries >= 1 =>
            \A b \in DOMAIN tasks :
              /\ tasks[b].calls <= config.max_retries
              /\ tasks[b].pc = "raised" =>
                    (tasks[b].calls = config.max_retries
                     /\ Len(tasks[b].sleeps) = config.max_retries - 1)
              /\ tasks[b].pc = "sleeping" => tasks[b].calls < config.max_retries
              /\ tasks[b].pc = "done" =>
                    (tasks[b].result # None
                     /\ tasks[b].calls = Len(tasks[b].sleeps) + 1))
    /\ [][\A b \in DOMAIN tasks :
            tasks[b].pc \in {"done", "raised"} => tasks'[b] = tasks[b]]_vars

\* a batch has failed max_retries >= 2 times and raised, and another has
\* succeeded on a second attempt
C10_Witness ==
    /\ config.max_retries >= 2
    /\ \E b \in DOMAIN tasks :
          tasks[b].pc = "raised" /\ tasks[b].calls = config.max_retries
    /\ \E b \in DOMAIN tasks : tasks[b].pc = "done" /\ tasks[b].calls = 2


\* a batch has slept three times
C11_Witness == \E b \in DOMAIN tasks : Len(tasks[b].sleeps) >= 3

\* C11: the waits of a batch grow geometrically: each wait is longer than the
\* one before, and the ratio of consecutive waits is the same all along
\* (retry_delay, 2 * retry_delay, 4 * retry_delay, ...).
C11_ExponentialBackoff ==
    \A b \in DOMAIN tasks :
        LET sleeps == tasks[b].sleeps IN
        /\ \A k \in 1..(Len(sleeps) - 1) : sleeps[k + 1] > sleeps[k]
        /\ \A k \in 2..(Len(sleeps) - 1) :
              sleeps[k + 1] * sleeps[k - 1] = sleeps[k] * sleeps[k]

\* the batches inside _process_batch at the same time
RunningBatches == {b \in DOMAIN tasks : tasks[b].pc = "running"}

\* C12: the number of batches being processed at the same time never exceeds
\* config.max_concurrent_batches.
C12_BoundedConcurrency ==
    Cardinality(RunningBatches) <= config.max_concurrent_batches

----------------------------------------------------------------------------
(***************************************************************************)
(* LLMClient.batch_generate                                                *)
(***************************************************************************)
\* the text the backend generates for a prompt
Reply(prompt) == prompt + 200

bg_Init ==
    /\ bg_prompts \in {[i \in 1..n |-> i] : n \in 0..MaxItems}
    /\ bg_batch_size \in 0..MaxBatchSize
    /\ bg_i = 0
    /\ bg_completed = << >>
    /\ bg_responses = << >>
    /\ bg_pc = "start"

bg_Idle ==
    /\ bg_prompts = << >>
    /\ bg_batch_size = 1
    /\ bg_i = 0
    /\ bg_completed = << >>
    /\ bg_responses = << >>
    /\ bg_pc = "idle"

\* line 104: batch = prompts[i:i + batch_size]
BatchOfPrompts ==
    SubSeq(bg_prompts, bg_i + 1, Min(bg_i + bg_batch_size, Len(bg_prompts)))

\* lines 101-103: the loop over range(0, len(prompts), batch_size) is entered
BatchGenerate ==
    /\ bg_pc = "start"
    /\ bg_pc' = IF bg_batch_size = 0 THEN "raised"  \* range() arg 3 must not be zero
                ELSE IF Len(bg_prompts) = 0 THEN "returned"
                ELSE "gather"
    /\ UNCHANGED <<bg_prompts, bg_batch_size, bg_i, bg_completed, bg_responses>>
    /\ UNCHANGED <<mc_vars, cl_vars, bp_vars, smp_vars, gn_vars, ev_vars,
                   ph_vars, sn_vars, sg_vars>>

\* lines 111-116: one of the generate_async calls of the batch returns
GenerateAsyncReturns ==
    /\ bg_pc = "gather"
    /\ \E k \in DOMAIN BatchOfPrompts \ Range(bg_completed) :
          bg_completed' = Append(bg_completed, k)
    /\ UNCHANGED <<bg_prompts, bg_batch_size, bg_i, bg_responses, bg_pc>>
    /\ UNCHANGED <<mc_vars, cl_vars, bp_vars, smp_vars, gn_vars, ev_vars,
                   ph_vars, sn_vars, sg_vars>>

\* lines 95-96, 116, 105: a generate_async call raises, and the exception leaves
\* gather, asyncio.run and batch_generate
GenerateAsyncRaises ==
    /\ bg_pc = "gather"
    /\ Range(bg_completed) # DOMAIN BatchOfPrompts
    /\ bg_pc' = "raised"
    /\ UNCHANGED <<bg_prompts, bg_batch_size, bg_i, bg_completed, bg_responses>>
    /\ UNCHANGED <<mc_vars, cl_vars, bp_vars, smp_vars, gn_vars, ev_vars,
                   ph_vars, sn_vars, sg_vars>>

\* lines 105-107: gather returns, the responses of the batch are appended, and
\* the loop goes on with the next batch or returns
BatchGathered ==
    /\ bg_pc = "gather"
    /\ Range(bg_completed) = DOMAIN BatchOfPrompts
    /\ bg_responses' = bg_responses \o
                         Gather([k \in DOMAIN BatchOfPrompts |->
                                    Reply(BatchOfPrompts[k])], bg_completed)
    /\ bg_i' = bg_i + bg_batch_size
    /\ bg_completed' = << >>
    /\ bg_pc' = IF bg_i + bg_batch_size < Len(bg_prompts) THEN "gather" ELSE "returned"
    /\ UNCHANGED <<bg_prompts, bg_batch_size>>
    /\ UNCHANGED <<mc_vars, cl_vars, bp_vars, smp_vars, gn_vars, ev_vars,
                   ph_vars, sn_vars, sg_vars>>

\* C13: when no item fails, process_batches and batch_generate return exactly
\* one result per input item, the i-th result being the result of the i-th
\* item, for every batch size and whatever the order the concurrent calls
\* completed in.
C13_OrderPreserved ==
    /\ bp_pc = "returned" =>
          results = [i \in DOMAIN items |-> ProcessFn(items[i])]
    /\ bg_pc = "returned" =>
          bg_responses = [i \in DOMAIN bg_prompts |-> Reply(bg_prompts[i])]

\* process_batches has returned the results of several batches, and the calls
\* of one batch completed in the reverse of the item order
C13_Witness ==
    /\ bp_pc = "returned"
    /\ Len(batches) >= 2
    /\ \E b \in DOMAIN tasks : tasks[b].completed = <<2, 1>>

----------------------------------------------------------------------------
(***************************************************************************)
(* PersonalityPhaseExperiment._run_temperature_sample                      *)
(***************************************************************************)
\* the parameters of MonteCarloAnalyzer.run_simulation_async
RunSimulationParams ==
    {"initial_personality", "prompts", "n_steps", "batch_size", "temperature_schedule"}

\* the keyword arguments of the call in lines 133-139
SampleCallKwargs ==
    {"initial_personality", "prompts", "n_steps", "batch_size", "temperature"}

\* calling a function with a keyword it does not declare raises TypeError
BindCall(kwargs, params) == IF kwargs \subseteq params THEN "bound" ELSE "TypeError"

\* lines 151-160 and 167-176: the state built when nothing valid was produced
\* (phase "unknown") and the one built by the except clause (phase "error")
SampleState(temperature, phase, response) ==
    [temperature |-> temperature, energy |-> Fin(0), entropy |-> 0,
     enthalpy |-> Fin(0), coherence |-> [num |-> 0, den |-> 1],
     personality |-> Personality, phase |-> phase, response |-> response]

FallbackState(temperature) ==
    SampleState(temperature, "unknown",
                <<"Error:", "Failed", "to", "generate", "valid", "response">>)

ErrorState(temperature, e) == SampleState(temperature, "error", <<"Error:", e>>)

\* state.response.startswith("Error:")
StartsWithError(response) == Len(response) >= 1 /\ response[1] = "Error:"

smp_Init ==
    /\ smp_args \in [temperature : TempValues, prompts : 0..MaxPrompts,
                     n_steps : 0..MaxSteps, batch_size : 0..MaxBatch]
    /\ smp_i = 0
    /\ smp_states = << >>
    /\ smp_result = << >>
    /\ smp_pc = "start"
    /\ all_states = << >>
    /\ smp_point = 0
    /\ output_states = << >>

smp_Idle ==
    /\ smp_args = [temperature |-> 50, prompts |-> 0, n_steps |-> 0, batch_size |-> 0]
    /\ smp_i = 0
    /\ smp_states = << >>
    /\ smp_result = << >>
    /\ smp_pc = "idle"
    /\ all_states = << >>
    /\ smp_point = 0
    /\ output_states = << >>

\* lines 125-127: the try block is entered
SampleBegin ==
    /\ smp_pc = "start"
    /\ smp_states' = << >>
    /\ smp_i' = 0
    /\ smp_pc' = "loop"
    /\ UNCHANGED <<smp_args, smp_result, all_states, smp_point, output_states>>
    /\ UNCHANGED <<mc_vars, cl_vars, bp_vars, bg_vars, gn_vars, ev_vars,
                   ph_vars, sn_vars, sg_vars>>

\* lines 128-139 and 165-176: one iteration of the loop: a personality is
\* generated and run_simulation_async is called; a call that cannot be bound
\* raises TypeError, which the except clause turns into the one error state
SampleIterate ==
    /\ smp_pc = "loop"
    /\ smp_i < smp_args.batch_size
    /\ IF BindCall(SampleCallKwargs, RunSimulationParams) = "TypeError"
       THEN /\ smp_result' = <<ErrorState(smp_args.temperature, "TypeError")>>
            /\ smp_pc' = "returned"
       ELSE /\ smp_pc' = "await_chain"
            /\ UNCHANGED smp_result
    /\ UNCHANGED <<smp_args, smp_i, smp_states, all_states, smp_point,
                   output_states>>
    /\ UNCHANGED <<mc_vars, cl_vars, bp_vars, bg_vars, gn_vars, ev_vars,
                   ph_vars, sn_vars, sg_vars>>

\* lines 149-163: the loop is over
SampleReturn ==
    /\ smp_pc = "loop"
    /\ smp_i >= smp_args.batch_size
    /\ smp_result' = IF Len(smp_states) = 0
                     THEN <<FallbackState(smp_args.temperature)>>
                     ELSE smp_states
    /\ smp_pc' = "returned"
    /\ UNCHANGED <<smp_args, smp_i, smp_states, all_states, smp_point,
                   output_states>>
    /\ UNCHANGED <<mc_vars, cl_vars, bp_vars, bg_vars, gn_vars, ev_vars,
                   ph_vars, sn_vars, sg_vars>>

\* _save_results, lines 77-91: the dictionary written for one state
StateDict(state) ==
    [temperature |-> state.temperature, energy |-> state.energy,
     entropy |-> state.entropy, enthalpy |-> state.enthalpy,
     coherence |-> state.coherence, personality |-> state.personality,
     phase |-> state.phase, response |-> state.response]

\* run_experiment, lines 50-62: the states of a temperature point are added to
\* all_states, and the next of the n_steps points is sampled at a temperature
\* drawn by np.random.uniform
SampleCollect ==
    /\ smp_pc = "returned"
    /\ smp_args.n_steps >= 1
    /\ all_states' = all_states \o smp_result
    /\ smp_point' = smp_point + 1
    /\ IF smp_point + 1 < smp_args.n_steps
       THEN /\ \E t \in TempValues : smp_args' = [smp_args EXCEPT !.temperature = t]
            /\ smp_pc' = "start"
       ELSE /\ smp_pc' = "collected"
            /\ UNCHANGED smp_args
    /\ UNCHANGED <<smp_i, smp_states, smp_result, output_states>>
    /\ UNCHANGED <<mc_vars, cl_vars, bp_vars, bg_vars, gn_vars, ev_vars,
                   ph_vars, sn_vars, sg_vars>>

\* run_experiment, lines 45-50, with n_steps = 0: there is no temperature point
\* and the loop body never runs
NoTemperaturePoint ==
    /\ smp_pc = "start"
    /\ smp_point = 0
    /\ smp_args.n_steps = 0
    /\ smp_pc' = "collected"
    /\ UNCHANGED <<smp_args, smp_i, smp_states, smp_result, all_states,
                   smp_point,
                   output_states>>
    /\ UNCHANGED <<mc_vars, cl_vars, bp_vars, bg_vars, gn_vars, ev_vars,
                   ph_vars, sn_vars, sg_vars>>

\* run_experiment, lines 64-71, and _save_results: without a state an Exception
\* is raised, otherwise every state is written to the JSON file
SaveResults ==
    /\ smp_pc = "collected"
    /\ IF Len(all_states) = 0
       THEN /\ smp_pc' = "raised"
            /\ UNCHANGED output_states
       ELSE /\ output_states' = [i \in DOMAIN all_states |-> StateDict(all_states[i])]
            /\ smp_pc' = "saved"
    /\ UNCHANGED <<smp_args, smp_i, smp_states, smp_result, all_states,
                   smp_point>>
    /\ UNCHANGED <<mc_vars, cl_vars, bp_vars, bg_vars, gn_vars, ev_vars,
                   ph_vars, sn_vars, sg_vars>>

----------------------------------------------------------------------------
(***************************************************************************)
(* PersonalityGenome (flows/core/personality_genetics.py) and              *)
(* PersonalityEvolution._crossover (flows/core/personality_evolution.py).  *)
(* Genomes are objects: a genome has an id, and the gene list of each of   *)
(* its chromosomes is a reference into the heap gn_lists, so that two      *)
(* chromosomes sharing one list can be told from two equal lists.  The     *)
(* constructor, copy and the three _apply_*_mutation methods are not       *)
(* defined in the sources; they are modelled as the specification          *)
(* describes them (sections 3 and 4.4).                                    *)
(***************************************************************************)
MaxGenomes == 4

\* ThermodynamicParameters.T_c
T_c == 100

Traits == {"identity", "memory", "structure"}

\* the temperatures mutate is called with: initialize_population draws from
\* uniform(0.1, 2.0), evolve starts at 0.1
MutationTemps == {10, 75, 100, 150, 190}

NewGene(stability, expression_temp) ==
    [sequence |-> << >>, stability |-> stability, expression_temp |-> expression_temp]

\* the genes and thresholds the constructor derives from the seed personality
SeedGenes(trait) ==
    CASE trait = "identity" -> <<NewGene(0, 100)>>
      [] trait = "memory" -> <<NewGene(50, 50), NewGene(0, 100)>>
      [] trait = "structure" -> <<NewGene(100, 50), NewGene(0, 100)>>

ActivationThreshold(trait) ==
    CASE trait = "identity" -> 50
      [] trait = "memory" -> 100
      [] trait = "structure" -> 150

\* 100 * ln(1 / (1 - stability)), rounded up, for a stability below 1
LogInverse(stability) ==
    CASE stability = 0 -> 0
      [] stability = 50 -> 70

\* _mutation_probability, lines 63-65: min((1 - stability) * exp((temp -
\* expression_temp) / T_c), 1.0) is 0.0, 1.0 or strictly between
MutationProbability(gene, temp) ==
    IF gene.stability = 100 THEN "zero"
    ELSE IF (temp - gene.expression_temp) * 100 >= LogInverse(gene.stability) * T_c
         THEN "one"
         ELSE "between"

\* line 58: np.random.random() < probability, for a draw of [0, 1)
MutationDraws(gene, temp) ==
    CASE MutationProbability(gene, temp) = "zero" -> {FALSE}
      [] MutationProbability(gene, temp) = "one" -> {TRUE}
      [] OTHER -> BOOLEAN

\* a plausible slip: the critical temperature still counts as conservative
MutationClass_Inclusive(temp) ==
    IF temp <= T_c THEN "synonymous"
    ELSE IF temp <= SemiToChaotic THEN "missense"
    ELSE "nonsense"

\* _mutate_gene, lines 69-77
MutationClass(temp) ==
    IF temp < T_c THEN "synonymous"
    ELSE IF temp < SemiToChaotic THEN "missense"
    ELSE "nonsense"

\* _apply_synonymous_mutation, _apply_missense_mutation, _apply_nonsense_mutation:
\* the gene is edited in place; its text is the seed text and the edits made
ApplyMutation(gene, class) == [gene EXCEPT !.sequence = Append(@, class)]

MutateGene(gene, temp) == ApplyMutation(gene, MutationClass(temp))

\* _mutate_chromosome, lines 57-59: the gene lists that can result
MutateChromosome(genes, temp) ==
    {[i \in DOMAIN genes |-> IF i \in S THEN MutateGene(genes[i], temp) ELSE genes[i]] :
        S \in {S \in SUBSET DOMAIN genes :
                  \A i \in DOMAIN genes : (i \in S) \in MutationDraws(genes[i], temp)}}

\* a plausible slip: a chromosome is activated at its threshold
Activated_Inclusive(temp, chromosome) == temp >= chromosome.activation_threshold

\* line 50: temp > chromosome.activation_threshold
Activated(temp, chromosome) == temp > chromosome.activation_threshold

NoOp == [kind |-> "none", parents |-> << >>, temp |-> 0, result |-> 0]

gn_Init ==
    /\ gn_lists = << >>
    /\ gn_genomes = << >>
    /\ gn_slots = << >>
    /\ gn_op = NoOp

\* the id of the next genome object
NextId == Cardinality(DOMAIN gn_genomes) + 1

\* the gene list of chromosome trait of genome g
Genes(g, trait) == gn_lists[gn_genomes[g][trait].genes]

\* the chromosome as a value: its gene list and its fields
ChromosomeValue(g, trait) ==
    [gn_genomes[g][trait] EXCEPT !.genes = Genes(g, trait)]

\* PersonalityGenome(seed_personality), lines 27-43: one chromosome per field
NewGenome ==
    /\ NextId <= MaxGenomes
    /\ gn_genomes' = gn_genomes @@
          (NextId :> [t \in Traits |->
                        [genes |-> <<NextId, t>>, trait_name |-> t,
                         activation_threshold |-> ActivationThreshold(t)]])
    /\ gn_lists' = gn_lists @@ [r \in {NextId} \X Traits |-> SeedGenes(r[2])]
    /\ gn_op' = [kind |-> "new", parents |-> << >>, temp |-> 0, result |-> NextId]
    /\ UNCHANGED gn_slots
    /\ UNCHANGED <<mc_vars, cl_vars, bp_vars, bg_vars, smp_vars, ev_vars,
                   ph_vars, sn_vars, sg_vars>>

\* PersonalityGenome.copy and Chromosome.copy: a deep copy; the chromosomes of
\* genome g as object n holds them, every gene list a list of its own
DeepCopy(g, n) ==
    [t \in DOMAIN gn_genomes[g] |-> [gn_genomes[g][t] EXCEPT !.genes = <<n, t>>]]

\* mutate, lines 47-53, with new_genome the object n: the chromosomes of n are
\* those of g, and the gene lists of the activated ones are mutated in place
MutateInto(g, n) ==
    /\ g \in DOMAIN gn_genomes
    /\ NextId <= MaxGenomes
    /\ \E temp \in MutationTemps :
         LET new_genome == DeepCopy(g, n)
             Outcomes(t) == IF Activated(temp, new_genome[t])
                            THEN MutateChromosome(Genes(g, t), temp)
                            ELSE {Genes(g, t)}
         IN \E genes \in [DOMAIN new_genome -> UNION {Outcomes(t) : t \in DOMAIN new_genome}] :
              /\ \A t \in DOMAIN new_genome : genes[t] \in Outcomes(t)
              /\ gn_genomes' = (n :> new_genome) @@ gn_genomes
              /\ gn_lists' = [r \in {n} \X DOMAIN new_genome |-> genes[r[2]]] @@ gn_lists
              /\ gn_op' = [kind |-> "mutate", parents |-> <<g>>, temp |-> temp,
                           result |-> n]
              /\ gn_slots' = Append(gn_slots, n)
    /\ UNCHANGED <<mc_vars, cl_vars, bp_vars, bg_vars, smp_vars, ev_vars,
                   ph_vars, sn_vars, sg_vars>>

\* a plausible slip: new_genome = self, the receiver is mutated and returned
Mutate_InPlace(g) == MutateInto(g, g)

\* mutate, line 47: new_genome = self.copy(), a new object; the caller appends
\* the genome returned to a population (personality_evolution.py:29-30, 67-68)
Mutate(g) == MutateInto(g, NextId)

\* a plausible slip: the genes of the two parents are recombined
Inherit_Blend(own, other, replace) ==
    IF replace
    THEN [other EXCEPT !.genes = [i \in DOMAIN other.genes |->
                                     IF i = 1 /\ i \in DOMAIN own.genes
                                     THEN own.genes[i] ELSE other.genes[i]]]
    ELSE own

\* _crossover, lines 108-110: the chromosome of the child is that of parent2
\* when the draw is below 0.5, and stays that of parent1 otherwise
Inherit(own, other, replace) == IF replace THEN other ELSE own

\* _crossover, lines 103-112
Crossover(parent1, parent2) ==
    /\ parent1 \in DOMAIN gn_genomes /\ parent2 \in DOMAIN gn_genomes
    /\ NextId <= MaxGenomes
    /\ \E replaced \in SUBSET (DOMAIN gn_genomes[parent2] \cap DOMAIN gn_genomes[parent1]) :
         LET n == NextId
             child == DeepCopy(parent1, n)
             value(t) == IF t \in DOMAIN gn_genomes[parent2]
                         THEN Inherit(ChromosomeValue(parent1, t),
                                      ChromosomeValue(parent2, t), t \in replaced)
                         ELSE ChromosomeValue(parent1, t)
         IN /\ gn_genomes' = gn_genomes @@
                  (n :> [t \in DOMAIN child |-> [value(t) EXCEPT !.genes = <<n, t>>]])
            /\ gn_lists' = gn_lists @@ [r \in {n} \X DOMAIN child |-> value(r[2]).genes]
            /\ gn_op' = [kind |-> "crossover", parents |-> <<parent1, parent2>>,
                         temp |-> 0, result |-> n]
    /\ UNCHANGED gn_slots
    /\ UNCHANGED <<mc_vars, cl_vars, bp_vars, bg_vars, smp_vars, ev_vars,
                   ph_vars, sn_vars, sg_vars>>

----------------------------------------------------------------------------
(***************************************************************************)
(* Properties of the genome operations.                                    *)
(***************************************************************************)
\* C17: after a crossover, every chromosome of the child is identical to the
\* chromosome of that trait of one of the two parents, never a mix of the two,
\* and the child has exactly the trait names of parent1.
C17_WholeChromosomes ==
    gn_op.kind = "crossover" =>
        LET parent1 == gn_op.parents[1]
            parent2 == gn_op.parents[2]
            child == gn_op.result
        IN /\ DOMAIN gn_genomes[child] = DOMAIN gn_genomes[parent1]
           /\ \A t \in DOMAIN gn_genomes[child] :
                \/ ChromosomeValue(child, t) = ChromosomeValue(parent1, t)
                \/ /\ t \in DOMAIN gn_genomes[parent2]
                   /\ ChromosomeValue(child, t) = ChromosomeValue(parent2, t)

\* a crossover has returned a child with a chromosome that is not parent1's and
\* a chromosome that is not parent2's
C17_Witness ==
    /\ gn_op.kind = "crossover"
    /\ \E t \in Traits :
          ChromosomeValue(gn_op.result, t) # ChromosomeValue(gn_op.parents[1], t)
    /\ \E t \in Traits :
          ChromosomeValue(gn_op.result, t) # ChromosomeValue(gn_op.parents[2], t)

\* C18: mutate and _crossover leave every genome that exists unchanged, their
\* inputs included; no two genomes share a gene list, so the genome returned
\* shares none with its inputs; and no two population slots hold the same
\* genome.
C18_NoAliasing ==
    /\ [](\A g1, g2 \in DOMAIN gn_genomes :
            \A t1 \in DOMAIN gn_genomes[g1], t2 \in DOMAIN gn_genomes[g2] :
                (g1 # g2 \/ t1 # t2) =>
                    gn_genomes[g1][t1].genes # gn_genomes[g2][t2].genes)
    /\ [](\A i, j \in DOMAIN gn_slots : i # j => gn_slots[i] # gn_slots[j])
    /\ [][\A g \in DOMAIN gn_genomes :
            /\ g \in DOMAIN gn_genomes'
            /\ gn_genomes'[g] = gn_genomes[g]
            /\ \A t \in DOMAIN gn_genomes[g] :
                  gn_lists'[gn_genomes[g][t].genes] = Genes(g, t)]_vars

\* two genomes have been returned by mutate and appended to a population, the
\* last with genes that differ from those of its receiver
C18_Witness ==
    /\ Len(gn_slots) >= 2
    /\ gn_op.kind = "mutate"
    /\ \E t \in Traits : Genes(gn_op.result, t) # Genes(gn_op.parents[1], t)

\* C19: in the genome mutate(T) returns, the genes of every chromosome whose
\* activation_threshold is at least T are those of the receiver; only genes of
\* chromosomes whose threshold is below T can differ.
C19_ThresholdGates ==
    gn_op.kind = "mutate" =>
        \A t \in DOMAIN gn_genomes[gn_op.result] :
            gn_genomes[gn_op.result][t].activation_threshold >= gn_op.temp =>
                Genes(gn_op.result, t) = Genes(gn_op.parents[1], t)

\* mutate was called at the threshold of a chromosome, and has changed another
C19_Witness ==
    /\ gn_op.kind = "mutate"
    /\ \E t \in Traits :
          gn_genomes[gn_op.result][t].activation_threshold = gn_op.temp
    /\ \E t \in Traits : Genes(gn_op.result, t) # Genes(gn_op.parents[1], t)

\* C20: every gene mutate(T) has changed received exactly one mutation, of the
\* class chosen by T alone: synonymous iff T < T_c, missense iff
\* T_c <= T < semi_to_chaotic, nonsense iff T >= semi_to_chaotic.
C20_ClassByTemperature ==
    gn_op.kind = "mutate" =>
        \A t \in DOMAIN gn_genomes[gn_op.result] :
            LET old == Genes(gn_op.parents[1], t)
                new == Genes(gn_op.result, t)
            IN /\ DOMAIN new = DOMAIN old
               /\ \A i \in DOMAIN new :
                    new[i] # old[i] =>
                        \E class \in {"synonymous", "missense", "nonsense"} :
                            /\ new[i] = [old[i] EXCEPT !.sequence = Append(@, class)]
                            /\ class = "synonymous" <=> gn_op.temp < T_c
                            /\ class = "missense" <=>
                                  (T_c <= gn_op.temp /\ gn_op.temp < SemiToChaotic)
                            /\ class = "nonsense" <=> gn_op.temp >= SemiToChaotic

\* mutate was called at T_c and has applied a missense mutation
C20_Witness ==
    /\ gn_op.kind = "mutate"
    /\ gn_op.temp = T_c
    /\ \E t \in Traits :
          \E i \in DOMAIN Genes(gn_op.result, t) :
              LET sequence == Genes(gn_op.result, t)[i].sequence
              IN /\ Len(sequence) > Len(Genes(gn_op.parents[1], t)[i].sequence)
                 /\ sequence[Len(sequence)] = "missense"

----------------------------------------------------------------------------
(***************************************************************************)
(* PersonalityEvolution (flows/core/personality_evolution.py).  A genome   *)
(* of the population is represented by the generation that created it;     *)
(* fitness_func is any function, so the scores are any values.             *)
(* _select_parents is not defined in the sources; it is modelled as the    *)
(* specification describes it (section 4.5): a fraction selection_pressure *)
(* of the population.                                                      *)
(***************************************************************************)
MaxPopulation == 2
MaxGenerations == 2

FitnessValues == {-1, 0, 1}
SelectionPressures == {0, 50, 100}

\* target_fitness: Optional[float]
NoTarget == [none |-> TRUE, value |-> 0]
Target(v) == [none |-> FALSE, value |-> v]
TargetFitnesses == {NoTarget} \cup {Target(v) : v \in FitnessValues}

\* the truth value of target_fitness: None and 0.0 are false
Truthy(target_fitness) == ~target_fitness.none /\ target_fitness.value # 0

\* line 53: target_fitness and max_fitness >= target_fitness
TargetReached(target_fitness, max_fitness) ==
    Truthy(target_fitness) /\ max_fitness >= target_fitness.value

ev_Init ==
    /\ population_size \in 0..MaxPopulation
    /\ selection_pressure \in SelectionPressures
    /\ ev_args \in [generations : 0..MaxGenerations, target_fitness : TargetFitnesses]
    /\ population = << >>
    /\ generation = 0
    /\ history = << >>
    /\ parents = {}
    /\ new_population = << >>
    /\ ev_i = 0
    /\ ev_pc = "new"
    /\ ev_error = "none"

ev_Idle ==
    /\ population_size = 0
    /\ selection_pressure = 50
    /\ ev_args = [generations |-> 0, target_fitness |-> NoTarget]
    /\ population = << >>
    /\ generation = 0
    /\ history = << >>
    /\ parents = {}
    /\ new_population = << >>
    /\ ev_i = 0
    /\ ev_pc = "idle"
    /\ ev_error = "none"

\* initialize_population, line 23: self.population = []
InitializePopulation ==
    /\ ev_pc \in {"new", "ready", "returned"}
    /\ population' = << >>
    /\ ev_i' = 0
    /\ ev_pc' = "initializing"
    /\ UNCHANGED <<population_size, selection_pressure, ev_args, generation,
                   history,
                   parents, new_population, ev_error>>
    /\ UNCHANGED <<mc_vars, cl_vars, bp_vars, bg_vars, smp_vars, gn_vars,
                   ph_vars, sn_vars, sg_vars>>

\* initialize_population, lines 26-30: one iteration of the loop over
\* range(population_size) appends a mutated genome of the seed, or the loop is over
AddGenome ==
    /\ ev_pc = "initializing"
    /\ IF ev_i < population_size
       THEN /\ population' = Append(population, [born |-> 0])
            /\ ev_i' = ev_i + 1
            /\ UNCHANGED ev_pc
       ELSE /\ ev_pc' = "ready"
            /\ UNCHANGED <<population, ev_i>>
    /\ UNCHANGED <<population_size, selection_pressure, ev_args, generation,
                   history,
                   parents, new_population, ev_error>>
    /\ UNCHANGED <<mc_vars, cl_vars, bp_vars, bg_vars, smp_vars, gn_vars,
                   ph_vars, sn_vars, sg_vars>>

\* evolve, lines 37-39
Evolve ==
    /\ ev_pc = "ready"
    /\ history' = << >>
    /\ generation' = 0
    /\ ev_pc' = "loop"
    /\ ev_error' = "none"
    /\ UNCHANGED <<population_size, selection_pressure, ev_args, population,
                   parents,
                   new_population, ev_i>>
    /\ UNCHANGED <<mc_vars, cl_vars, bp_vars, bg_vars, smp_vars, gn_vars,
                   ph_vars, sn_vars, sg_vars>>

\* evolve, lines 39-54 and 72: the loop is over and history is returned, or the
\* population is evaluated, the record of the generation is appended and the
\* termination condition is checked; max([]) raises ValueError
Evaluate ==
    /\ ev_pc = "loop"
    /\ IF generation >= ev_args.generations
       THEN ev_pc' = "returned" /\ UNCHANGED <<history, ev_error>>
       ELSE IF Len(population) = 0
       THEN ev_pc' = "raised" /\ ev_error' = "ValueError" /\ UNCHANGED history
       ELSE \E max_fitness \in FitnessValues :
              /\ history' = Append(history, [generation |-> generation,
                                             max_fitness |-> max_fitness])
              /\ ev_pc' = IF TargetReached(ev_args.target_fitness, max_fitness)
                          THEN "returned" ELSE "select"
              /\ UNCHANGED ev_error
    /\ UNCHANGED <<population_size, selection_pressure, ev_args, population,
                   generation,
                   parents, new_population, ev_i>>
    /\ UNCHANGED <<mc_vars, cl_vars, bp_vars, bg_vars, smp_vars, gn_vars,
                   ph_vars, sn_vars, sg_vars>>

\* a plausible slip: the genome whose evaluation failed is dropped
FitnessRaises_DropsGenome ==
    /\ ev_pc = "loop"
    /\ generation < ev_args.generations
    /\ Len(population) > 0
    /\ ev_pc' = "raised"
    /\ ev_error' = "FitnessError"
    /\ population' = Tail(population)
    /\ UNCHANGED <<population_size, selection_pressure, ev_args, generation,
                   history, parents, new_population, ev_i>>
    /\ UNCHANGED <<mc_vars, cl_vars, bp_vars, bg_vars, smp_vars, gn_vars,
                   ph_vars, sn_vars, sg_vars>>

\* line 43: fitness_func raises, and the exception leaves evolve
FitnessRaises ==
    /\ ev_pc = "loop"
    /\ generation < ev_args.generations
    /\ Len(population) > 0
    /\ ev_pc' = "raised"
    /\ ev_error' = "FitnessError"
    /\ UNCHANGED <<population_size, selection_pressure, ev_args, population,
                   generation,
                   history, parents, new_population, ev_i>>
    /\ UNCHANGED <<mc_vars, cl_vars, bp_vars, bg_vars, smp_vars, gn_vars,
                   ph_vars, sn_vars, sg_vars>>

\* _select_parents: the number of genomes selected
NumParents == (selection_pressure * Len(population)) \div 100

\* lines 57-60
SelectParents ==
    /\ ev_pc = "select"
    /\ \E ps \in SUBSET DOMAIN population :
          /\ Cardinality(ps) = NumParents
          /\ parents' = ps
    /\ new_population' = << >>
    /\ ev_pc' = "breed"
    /\ UNCHANGED <<population_size, selection_pressure, ev_args, population,
                   generation,
                   history, ev_i, ev_error>>
    /\ UNCHANGED <<mc_vars, cl_vars, bp_vars, bg_vars, smp_vars, gn_vars,
                   ph_vars, sn_vars, sg_vars>>

\* a plausible slip: the loop runs once more
BreedMore_Inclusive(n) == n <= population_size

\* line 61: len(new_population) < self.population_size
BreedMore(n) == n < population_size

\* lines 61-70: one iteration of the while loop appends a mutated child of two
\* of the parents (np.random.choice raises ValueError when there are fewer than
\* two), or the loop is over and new_population replaces the population
Breed ==
    /\ ev_pc = "breed"
    /\ IF BreedMore(Len(new_population))
       THEN IF Cardinality(parents) < 2
            THEN /\ ev_pc' = "raised" /\ ev_error' = "ValueError"
                 /\ UNCHANGED <<population, generation, new_population>>
            ELSE /\ new_population' = Append(new_population, [born |-> generation + 1])
                 /\ UNCHANGED <<population, generation, ev_pc, ev_error>>
       ELSE /\ population' = new_population
            /\ generation' = generation + 1
            /\ ev_pc' = "loop"
            /\ UNCHANGED <<new_population, ev_error>>
    /\ UNCHANGED <<population_size, selection_pressure, ev_args, history,
                   parents, ev_i>>
    /\ UNCHANGED <<mc_vars, cl_vars, bp_vars, bg_vars, smp_vars, gn_vars,
                   ph_vars, sn_vars, sg_vars>>

----------------------------------------------------------------------------
(***************************************************************************)
(* Properties of the evolution engine.                                     *)
(***************************************************************************)
\* C15: once initialize_population has returned, and after every generation of
\* evolve (the loop going on, stopped on the target, out of generations, or
\* left by an exception), len(population) = population_size; that includes a
\* second call of initialize_population, which resets the population.
C15_PopulationSize ==
    ev_pc \in {"ready", "loop", "select", "breed", "returned", "raised"} =>
        Len(population) = population_size

\* a generation of evolve has replaced a population of two genomes or more
C15_Witness ==
    /\ ev_pc = "loop"
    /\ generation >= 1
    /\ population_size >= 2
    /\ \A i \in DOMAIN population : population[i].born = generation

\* C16: evolve returns at the first generation whose max_fitness reaches the
\* target, for any numeric target_fitness, or after the last of the generations;
\* history has one record per evaluated generation, numbered from 0.
C16_StopsAtTarget ==
    ev_pc = "returned" =>
        /\ \A k \in DOMAIN history : history[k].generation = k - 1
        /\ Len(history) <= ev_args.generations
        /\ ~ev_args.target_fitness.none =>
              \A k \in 1..(Len(history) - 1) :
                  history[k].max_fitness < ev_args.target_fitness.value
        /\ Len(history) < ev_args.generations =>
              /\ ~ev_args.target_fitness.none
              /\ history[Len(history)].max_fitness >= ev_args.target_fitness.value

\* C26: when fitness_func raises while generation g is evaluated, the error
\* leaves evolve; the step creates no new population, appends no record, and
\* self.population is the population that entered generation g, then and after.
C26_EvaluationFailureAborts ==
    /\ [][(ev_error # "FitnessError" /\ ev_error' = "FitnessError") =>
            /\ ev_pc' = "raised"
            /\ population' = population
            /\ new_population' = new_population
            /\ history' = history
            /\ generation' = generation]_vars
    /\ [][ev_error = "FitnessError" =>
            (ev_error' = "FitnessError" /\ ev_pc' = "raised"
             /\ population' = population)]_vars
    /\ [](ev_error = "FitnessError" =>
            /\ Len(population) = population_size
            /\ \A i \in DOMAIN population : population[i].born = generation
            /\ Len(history) = generation)

\* fitness_func raised in a generation after the first, on a population that
\* a generation of evolve had replaced
C26_Witness ==
    /\ ev_error = "FitnessError"
    /\ ev_pc = "raised"
    /\ generation >= 1
    /\ Len(population) >= 2
    /\ Len(history) >= 1

----------------------------------------------------------------------------
(***************************************************************************)
(* The phase classifiers: PersonalityThermodynamics._determine_phase,      *)
(* MonteCarloAnalyzer._determine_phase and                                 *)
(* PersonalityDreams._determine_phase, applied to one (coherence,          *)
(* temperature), both in hundredths.                                       *)
(***************************************************************************)
\* the literals of PersonalityDreams._determine_phase
DreamCoherent == 80
DreamSemi == 60
DreamChaoticTemp == 150

\* coherence is 0.7 * unique_ratio + 0.3 * structural_coherence, a number of
\* [0, 1]; the temperatures surround both boundaries
PhaseCoherences == {0, 50, 60, 61, 80, 81, 100}
PhaseTemperatures == {0, 70, 79, 80, 81, 100, 149, 150, 151, 200}

PhaseLabels == {"coherent", "semi-coherent", "chaotic"}

\* the boundary test with <= in place of <
ThermoDeterminePhase_Inclusive(coherence, temperature) ==
    IF temperature <= CoherentToSemi THEN "coherent"
    ELSE IF temperature <= SemiToChaotic THEN "semi-coherent"
    ELSE "chaotic"

\* PersonalityThermodynamics._determine_phase(coherence, temperature)
ThermoDeterminePhase(coherence, temperature) ==
    IF temperature < CoherentToSemi THEN "coherent"
    ELSE IF temperature < SemiToChaotic THEN "semi-coherent"
    ELSE "chaotic"

\* PersonalityDreams._determine_phase(coherence, temperature)
DreamDeterminePhase(coherence, temperature) ==
    IF coherence > DreamCoherent THEN "coherent"
    ELSE IF coherence > DreamSemi /\ temperature < DreamChaoticTemp
         THEN "semi-coherent"
    ELSE "chaotic"

ph_Init ==
    /\ ph_input \in [coherence : PhaseCoherences, temperature : PhaseTemperatures]
    /\ ph_phase = [thermodynamics |-> "none", chain |-> "none", dream |-> "none"]

ph_Idle ==
    /\ ph_input = [coherence |-> 0, temperature |-> 0]
    /\ ph_phase = [thermodynamics |-> "idle", chain |-> "idle", dream |-> "idle"]

\* thermodynamics.py line 61: calculate_energy records
\* self._determine_phase(coherence, temperature)
ThermodynamicsClassifies ==
    /\ ph_phase.thermodynamics = "none"
    /\ ph_phase' = [ph_phase EXCEPT !.thermodynamics =
                       ThermoDeterminePhase(ph_input.coherence, ph_input.temperature)]
    /\ UNCHANGED ph_input
    /\ UNCHANGED <<mc_vars, cl_vars, bp_vars, bg_vars, smp_vars, gn_vars,
                   ev_vars, sn_vars, sg_vars>>

\* monte_carlo.py line 87: _create_state_from_response records
\* self._determine_phase(temperature, thermo_props["coherence"])
ChainClassifies ==
    /\ ph_phase.chain = "none"
    /\ ph_phase' = [ph_phase EXCEPT !.chain =
                       DeterminePhase(ph_input.temperature, ph_input.coherence)]
    /\ UNCHANGED ph_input
    /\ UNCHANGED <<mc_vars, cl_vars, bp_vars, bg_vars, smp_vars, gn_vars,
                   ev_vars, sn_vars, sg_vars>>

\* personality_dreams.py line 43: generate_dream_sequence records
\* self._determine_phase(coherence, temp)
DreamClassifies ==
    /\ ph_phase.dream = "none"
    /\ ph_phase' = [ph_phase EXCEPT !.dream =
                       DreamDeterminePhase(ph_input.coherence, ph_input.temperature)]
    /\ UNCHANGED ph_input
    /\ UNCHANGED <<mc_vars, cl_vars, bp_vars, bg_vars, smp_vars, gn_vars,
                   ev_vars, sn_vars, sg_vars>>

----------------------------------------------------------------------------
(***************************************************************************)
(* Properties of the phase classifiers.                                    *)
(***************************************************************************)
\* the partition of temperature by the two boundaries
PhaseOfTemperature(T) ==
    IF T < CoherentToSemi THEN "coherent"
    ELSE IF T < SemiToChaotic THEN "semi-coherent"
    ELSE "chaotic"

\* coherent, then semi-coherent, then chaotic
PhaseRank(label) ==
    IF label = "coherent" THEN 0 ELSE IF label = "semi-coherent" THEN 1 ELSE 2

\* C21: the phase the thermodynamics and the chain record is coherent iff
\* T < T1, semi-coherent iff T1 <= T < T2 and chaotic iff T >= T2, whatever
\* the coherence, and no lower temperature has a label further from coherent.
C21_PhasePartition ==
    \A label \in {ph_phase.thermodynamics, ph_phase.chain} \ {"none", "idle"} :
        /\ label \in PhaseLabels
        /\ (label = "coherent") <=> (ph_input.temperature < CoherentToSemi)
        /\ (label = "semi-coherent") <=>
               /\ CoherentToSemi <= ph_input.temperature
               /\ ph_input.temperature < SemiToChaotic
        /\ (label = "chaotic") <=> (ph_input.temperature >= SemiToChaotic)
        /\ \A c \in PhaseCoherences, T \in PhaseTemperatures :
               T <= ph_input.temperature =>
                   /\ PhaseRank(ThermoDeterminePhase(c, T)) <= PhaseRank(label)
                   /\ PhaseRank(DeterminePhase(T, c)) <= PhaseRank(label)

\* both classifiers have labelled a temperature on a boundary, at a coherence
\* that is not zero
C21_Witness ==
    /\ ph_phase.thermodynamics = "semi-coherent"
    /\ ph_phase.chain = "semi-coherent"
    /\ ph_input.temperature = CoherentToSemi
    /\ ph_input.coherence > 0

\* C28: the phase a dream state records equals the phase
\* PersonalityThermodynamics._determine_phase returns for the same coherence
\* and temperature.
C28_ClassifiersAgree ==
    (ph_phase.dream \in PhaseLabels /\ ph_phase.thermodynamics \in PhaseLabels)
        => ph_phase.dream = ph_phase.thermodynamics

----------------------------------------------------------------------------
(***************************************************************************)
(* Properties of the experiment driver.                                    *)
(***************************************************************************)
StateFields ==
    {"temperature", "energy", "entropy", "enthalpy", "coherence", "personality",
     "phase", "response"}

\* C23: every state record _save_results writes has the eight documented
\* fields and a phase that is coherent, semi-coherent or chaotic.
C23_PersistedPhase ==
    \A i \in DOMAIN output_states :
        /\ DOMAIN output_states[i] = StateFields
        /\ output_states[i].phase \in PhaseLabels

\* C29: when no generation call failed, the list _run_temperature_sample
\* returns holds no state of phase "error" or "unknown", and for a batch_size
\* of one or more it holds states of the chain.
C29_NoErrorWithoutFailure ==
    (smp_pc = "returned" /\ mc_error = "none" /\ mc_inflight = 0) =>
        /\ \A i \in DOMAIN smp_result : smp_result[i].phase \notin {"error", "unknown"}
        /\ smp_args.batch_size >= 1 => Len(smp_result) >= smp_args.batch_size

----------------------------------------------------------------------------
(***************************************************************************)
(* The personality snapshots of the chain and MCState.to_dict / from_dict  *)
(* (flows/core/monte_carlo.py).  A personality is a dict whose I_G is a    *)
(* list of goals; dicts, lists and MCState objects live in heaps, so that  *)
(* two references to one list can be told from two equal lists.            *)
(***************************************************************************)
MaxGoals == 2

\* the caller's dict initial_personality is the first dict of the heap
InitialPersonality == 1

\* dict.copy(): a new dict with the same values, a list value being the same list
DictCopy(dicts, d) == Append(dicts, dicts[d])

\* copy.deepcopy of a personality: a new dict and a new list with equal contents
DeepCopyLists(lists, dicts, d) == Append(lists, lists[dicts[d].I_G])
DeepCopyDicts(lists, dicts, d) ==
    Append(dicts, [dicts[d] EXCEPT !.I_G = Len(lists) + 1])

\* the value of a personality dict and of a state, references followed
DictValue(d) == [I_S |-> sn_dicts[d].I_S, I_G |-> sn_lists[sn_dicts[d].I_G],
                 I_W |-> sn_dicts[d].I_W]
StateValue(state) == [state EXCEPT !.personality = DictValue(state.personality)]

\* the goals list of the personality of a state object
GoalsOf(o) == sn_dicts[sn_objs[o].personality].I_G

sn_Init ==
    /\ sn_lists \in {<< << >> >>, << <<"understand">> >>}
    /\ sn_dicts = << [I_S |-> "analytical", I_G |-> 1, I_W |-> "structured"] >>
    /\ sn_objs = << >>
    /\ sn_chain = << >>
    /\ sn_current = 0
    /\ sn_source = 0
    /\ sn_dump = << >>
    /\ sn_loaded = 0
    /\ sn_pc = "start"

sn_Idle ==
    /\ sn_lists = << >>
    /\ sn_dicts = << >>
    /\ sn_objs = << >>
    /\ sn_chain = << >>
    /\ sn_current = 0
    /\ sn_source = 0
    /\ sn_dump = << >>
    /\ sn_loaded = 0
    /\ sn_pc = "idle"

\* run_simulation_async, lines 109-111: _initialize_state stores
\* personality.copy() in the first state
SnapshotBegin ==
    /\ sn_pc = "start"
    /\ sn_dicts' = DictCopy(sn_dicts, InitialPersonality)
    /\ sn_objs' = <<InitializeState(Len(sn_dicts) + 1)>>
    /\ sn_chain' = <<1>>
    /\ sn_current' = 1
    /\ sn_pc' = "loop"
    /\ UNCHANGED <<sn_lists, sn_source, sn_dump, sn_loaded>>
    /\ UNCHANGED <<mc_vars, cl_vars, bp_vars, bg_vars, smp_vars, gn_vars,
                   ev_vars, ph_vars, sg_vars>>

\* lines 121-143: one iteration: _create_state_from_response stores
\* current_state.personality.copy() in the proposed state, _accept_state
\* decides, and current_state is appended
SnapshotStep ==
    /\ sn_pc = "loop"
    /\ Len(sn_chain) <= MaxSteps
    /\ \E response \in Responses, T \in TempValues, draw \in BOOLEAN :
       \E energy \in Energies(response) :
         LET proposed == CreateStateFromResponse(
                             response, Len(sn_dicts) + 1, T, energy)
             decision == AcceptState(
                             FSub(energy, sn_objs[sn_current].energy), T, draw)
         IN /\ sn_dicts' = DictCopy(sn_dicts, sn_objs[sn_current].personality)
            /\ sn_objs' = Append(sn_objs, proposed)
            /\ IF decision = "AttributeError"
               THEN /\ sn_pc' = "raised"
                    /\ UNCHANGED <<sn_chain, sn_current>>
               ELSE /\ sn_current' = IF decision = "accept"
                                     THEN Len(sn_objs) + 1 ELSE sn_current
                    /\ sn_chain' = Append(sn_chain, sn_current')
                    /\ UNCHANGED sn_pc
    /\ UNCHANGED <<sn_lists, sn_source, sn_dump, sn_loaded>>
    /\ UNCHANGED <<mc_vars, cl_vars, bp_vars, bg_vars, smp_vars, gn_vars,
                   ev_vars, ph_vars, sg_vars>>

\* lines 145-146: the list states is returned
SnapshotReturn ==
    /\ sn_pc = "loop"
    /\ sn_pc' = "returned"
    /\ UNCHANGED <<sn_lists, sn_dicts, sn_objs, sn_chain, sn_current, sn_source,
                   sn_dump, sn_loaded>>
    /\ UNCHANGED <<mc_vars, cl_vars, bp_vars, bg_vars, smp_vars, gn_vars,
                   ev_vars, ph_vars, sg_vars>>

\* after the run the caller appends a goal to the I_G of a personality: its
\* own, that of a state, or that of a dict to_dict returned.  Nothing runs
\* between the two calls of from_dict(s.to_dict()).
ModifyGoals(d) ==
    /\ sn_pc = "returned"
    /\ sn_dump = << >> \/ sn_loaded # 0
    /\ Len(sn_lists[sn_dicts[d].I_G]) < MaxGoals
    /\ sn_lists' = [sn_lists EXCEPT ![sn_dicts[d].I_G] = Append(@, "optimize")]
    /\ UNCHANGED <<sn_dicts, sn_objs, sn_chain, sn_current, sn_source, sn_dump,
                   sn_loaded, sn_pc>>
    /\ UNCHANGED <<mc_vars, cl_vars, bp_vars, bg_vars, smp_vars, gn_vars,
                   ev_vars, ph_vars, sg_vars>>

\* a plausible slip: the fields are copied as they are (dict(vars(self)))
ToDict_Shallow(o) ==
    /\ sn_pc = "returned"
    /\ sn_dump = << >>
    /\ sn_dump' = <<sn_objs[o]>>
    /\ sn_source' = o
    /\ UNCHANGED <<sn_lists, sn_dicts, sn_objs, sn_chain, sn_current, sn_loaded,
                   sn_pc>>
    /\ UNCHANGED <<mc_vars, cl_vars, bp_vars, bg_vars, smp_vars, gn_vars,
                   ev_vars, ph_vars, sg_vars>>

\* MCState.to_dict, line 22: asdict(self) builds a dict of the fields and
\* copies every dict and list in them recursively
ToDict(o) ==
    /\ sn_pc = "returned"
    /\ sn_dump = << >>
    /\ sn_lists' = DeepCopyLists(sn_lists, sn_dicts, sn_objs[o].personality)
    /\ sn_dicts' = DeepCopyDicts(sn_lists, sn_dicts, sn_objs[o].personality)
    /\ sn_dump' = <<[sn_objs[o] EXCEPT !.personality = Len(sn_dicts) + 1]>>
    /\ sn_source' = o
    /\ UNCHANGED <<sn_objs, sn_chain, sn_current, sn_loaded, sn_pc>>
    /\ UNCHANGED <<mc_vars, cl_vars, bp_vars, bg_vars, smp_vars, gn_vars,
                   ev_vars, ph_vars, sg_vars>>

\* MCState.from_dict, line 27: cls(**data) stores the values of data in a new
\* state, the personality being the dict of data itself
FromDict ==
    /\ sn_dump # << >>
    /\ sn_loaded = 0
    /\ sn_objs' = Append(sn_objs, sn_dump[1])
    /\ sn_loaded' = Len(sn_objs) + 1
    /\ UNCHANGED <<sn_lists, sn_dicts, sn_chain, sn_current, sn_source, sn_dump,
                   sn_pc>>
    /\ UNCHANGED <<mc_vars, cl_vars, bp_vars, bg_vars, smp_vars, gn_vars,
                   ev_vars, ph_vars, sg_vars>>

----------------------------------------------------------------------------
(***************************************************************************)
(* Properties of the snapshots.                                            *)
(***************************************************************************)
\* the personalities a caller can reach after a run: its own and the states'
Snapshots ==
    {InitialPersonality} \cup {sn_objs[sn_chain[i]].personality : i \in DOMAIN sn_chain}

\* C22: no two states of a chain, and no state and the caller's initial
\* personality, share one goals list, so a step that modifies a goals list
\* changes the personality of at most one of them.
C22_SnapshotsAreDeepCopies ==
    /\ [](\A i \in DOMAIN sn_chain :
            /\ GoalsOf(sn_chain[i]) # sn_dicts[InitialPersonality].I_G
            /\ \A j \in DOMAIN sn_chain :
                  sn_chain[i] # sn_chain[j] =>
                      GoalsOf(sn_chain[i]) # GoalsOf(sn_chain[j]))
    /\ [][Cardinality({d \in Snapshots : DictValue(d)' # DictValue(d)}) <= 1]_vars

\* C24: the state from_dict builds from s.to_dict() equals s field by field,
\* and the dict to_dict returned holds the eight fields, with a personality
\* that is neither the dict of s nor a dict sharing its goals list.
C24_RoundTrip ==
    /\ [](sn_dump # << >> =>
            /\ DOMAIN sn_dump[1] = StateFields
            /\ sn_dump[1].personality # sn_objs[sn_source].personality
            /\ sn_dicts[sn_dump[1].personality].I_G # GoalsOf(sn_source))
    /\ [][(sn_loaded = 0 /\ sn_loaded' # 0) =>
            (StateValue(sn_objs[sn_loaded]) = StateValue(sn_objs[sn_source]))']_vars

\* a state the chain created from a response was taken through to_dict and
\* from_dict, and a goal appended to its personality afterwards is not in the
\* dict to_dict returned
C24_Witness ==
    /\ sn_loaded # 0
    /\ sn_source > 1
    /\ sn_objs[sn_source].response # << >>
    /\ Len(sn_lists[GoalsOf(sn_source)]) >
           Len(sn_lists[sn_dicts[sn_dump[1].personality].I_G])
    /\ Len(sn_lists[sn_dicts[sn_dump[1].personality].I_G]) >= 1

----------------------------------------------------------------------------
(***************************************************************************)
(* GeneSegmenter.segment_genes (src/gene_identification/gene_segmenter.py).*)
(* A label is its tag ("B" for B-*, "I" for I-*, "O" for any other) with   *)
(* its entity type; the tokenizer and the classifier are the inputs.       *)
(***************************************************************************)
MaxTokens == 4

SegTokens == {"muscle", "##s"}
SegLabels == {[tag |-> "B", type |-> "PER"], [tag |-> "I", type |-> "PER"],
              [tag |-> "I", type |-> "LOC"], [tag |-> "O", type |-> ""]}

\* token.replace("##", "")
StripHashes(token) == IF token = "##s" THEN "s" ELSE token

\* label.startswith("B-")
OpensGene(label) == label.tag = "B"

\* a plausible slip: an I-* token without an open gene opens one
ContinuesGene_Orphan(label, current_gene) == label.tag = "I"

\* label.startswith("I-") and current_gene
ContinuesGene(label, current_gene) == label.tag = "I" /\ current_gene # << >>

\* genes.append(" ".join(current_gene)) when current_gene is not empty
Flush(genes, current_gene) ==
    IF current_gene # << >> THEN Append(genes, current_gene) ELSE genes

\* lines 36-49: the loop from pair i on, and the append after the loop
RECURSIVE SegmentLoop(_, _, _, _)
SegmentLoop(pairs, i, genes, current_gene) ==
    IF i > Len(pairs) THEN Flush(genes, current_gene)
    ELSE LET token == pairs[i].token
             label == pairs[i].label
         IN IF OpensGene(label)
            THEN SegmentLoop(pairs, i + 1, Flush(genes, current_gene),
                             <<StripHashes(token)>>)
            ELSE IF ContinuesGene(label, current_gene)
            THEN SegmentLoop(pairs, i + 1, genes,
                             Append(current_gene, StripHashes(token)))
            ELSE SegmentLoop(pairs, i + 1, Flush(genes, current_gene), << >>)

sg_Init ==
    /\ sg_tokens \in SeqsUpTo([token : SegTokens, label : SegLabels], MaxTokens)
    /\ sg_genes = << >>
    /\ sg_pc = "start"

sg_Idle ==
    /\ sg_tokens = << >>
    /\ sg_genes = << >>
    /\ sg_pc = "idle"

\* segment_genes, lines 30-49
SegmentGenes ==
    /\ sg_pc = "start"
    /\ sg_genes' = SegmentLoop(sg_tokens, 1, << >>, << >>)
    /\ sg_pc' = "returned"
    /\ UNCHANGED sg_tokens
    /\ UNCHANGED <<mc_vars, cl_vars, bp_vars, bg_vars, smp_vars, gn_vars,
                   ev_vars, ph_vars, sn_vars>>

----------------------------------------------------------------------------
(***************************************************************************)
(* Properties of the segmenter.                                            *)
(***************************************************************************)
\* the positions of the B-* tokens
GeneStarts == {i \in DOMAIN sg_tokens : sg_tokens[i].label.tag = "B"}

\* the last position of the run of I-* tokens that follows position i
RunEnd(i) ==
    CHOOSE j \in i..Len(sg_tokens) :
        /\ \A k \in (i + 1)..j : sg_tokens[k].label.tag = "I"
        /\ j = Len(sg_tokens) \/ sg_tokens[j + 1].label.tag # "I"

\* the n-th B-* position in token order
NthStart(n) ==
    CHOOSE i \in GeneStarts : Cardinality({j \in GeneStarts : j < i}) = n - 1

\* the tokens of the run that starts at position i
RunTokens(i) ==
    [k \in 1..(RunEnd(i) - i + 1) |-> StripHashes(sg_tokens[i + k - 1].token)]

\* C27: segment_genes returns, in token order, one gene per maximal run of a
\* B-* token followed by consecutive I-* tokens; an I-* token without an open
\* gene and a token of any other label are in no gene, and the list is empty
\* when no token is labelled B-*.
C27_MaximalRuns ==
    sg_pc = "returned" =>
        /\ Len(sg_genes) = Cardinality(GeneStarts)
        /\ \A n \in DOMAIN sg_genes : sg_genes[n] = RunTokens(NthStart(n))

\* an I-* token before any B-* token, a gene of two tokens and a gene of one
C27_Witness ==
    /\ sg_pc = "returned"
    /\ Len(sg_tokens) = MaxTokens
    /\ sg_tokens[1].label.tag = "I"
    /\ Len(sg_genes) = 2
    /\ Len(sg_genes[1]) = 2
    /\ sg_tokens[3].label.type # sg_tokens[2].label.type

----------------------------------------------------------------------------
(***************************************************************************)
(* Specifications: the chain, the client, the batch processor, the sample, *)
(* the genome, the evolution engine, the phase classifiers, the snapshots, *)
(* the segmenter.                                                          *)
(***************************************************************************)
Init ==
    mc_Init /\ cl_Idle /\ bp_Idle /\ bg_Idle /\ smp_Idle /\ gn_Init /\ ev_Idle
    /\ ph_Idle /\ sn_Idle /\ sg_Idle

Next ==
    \/ Begin
    \/ ProcessSinglePrompt
    \/ Respond
    \/ GeneratorRaises
    \/ Metropolis
    \/ Return

Spec == Init /\ [][Next]_vars

mc_Idle ==
    /\ temperature_schedule = [none |-> TRUE, temps |-> << >>]
    /\ prompts = << >>
    /\ n_steps = 0
    /\ mc_batch_size = 1
    /\ schedule = << >>
    /\ steps_per_temp = 0
    /\ states = << >>
    /\ current_state = NoState
    /\ proposed_state = NoState
    /\ mc_pos = [ti |-> 1, st |-> 1, pi |-> 1]
    /\ mc_pc = "idle"
    /\ mc_error = "none"
    /\ mc_inflight = 0
    /\ mc_log = << >>

ClientInit ==
    mc_Idle /\ cl_Init /\ bp_Idle /\ bg_Idle /\ smp_Idle /\ gn_Init /\ ev_Idle
    /\ ph_Idle /\ sn_Idle /\ sg_Idle

ClientNext ==
    \E c \in Calls :
        \/ CallClient(c)
        \/ BackendReturns(c)
        \/ BackendRaises(c)

ClientSpec == ClientInit /\ [][ClientNext]_vars

\* either process_batches or batch_generate is called
BatchInit ==
    /\ mc_Idle /\ cl_Idle /\ smp_Idle /\ gn_Init /\ ev_Idle /\ ph_Idle
       /\ sn_Idle /\ sg_Idle
    /\ \/ bp_Init /\ bg_Idle
       \/ bp_Idle /\ bg_Init

BatchNext ==
    \/ ProcessBatches
    \/ GatherReturns
    \/ GatherRaises
    \/ \E b \in DOMAIN tasks : TaskStart(b)
    \/ \E b \in DOMAIN tasks : ItemCompletes(b)
    \/ \E b \in DOMAIN tasks : AttemptSucceeds(b)
    \/ \E b \in DOMAIN tasks : AttemptFails(b)
    \/ \E b \in DOMAIN tasks : Wake(b)
    \/ BatchGenerate
    \/ GenerateAsyncReturns
    \/ GenerateAsyncRaises
    \/ BatchGathered

BatchSpec == BatchInit /\ [][BatchNext]_vars

SampleInit ==
    mc_Idle /\ cl_Idle /\ bp_Idle /\ bg_Idle /\ smp_Init /\ gn_Init /\ ev_Idle
    /\ ph_Idle /\ sn_Idle /\ sg_Idle

SampleNext ==
    \/ SampleBegin
    \/ SampleIterate
    \/ SampleReturn
    \/ SampleCollect
    \/ NoTemperaturePoint
    \/ SaveResults

SampleSpec == SampleInit /\ [][SampleNext]_vars

GenomeInit ==
    mc_Idle /\ cl_Idle /\ bp_Idle /\ bg_Idle /\ smp_Idle /\ gn_Init /\ ev_Idle
    /\ ph_Idle /\ sn_Idle /\ sg_Idle

GenomeNext ==
    \/ NewGenome
    \/ \E g \in DOMAIN gn_genomes : Mutate(g)
    \/ \E parent1, parent2 \in DOMAIN gn_genomes : Crossover(parent1, parent2)

GenomeSpec == GenomeInit /\ [][GenomeNext]_vars

EvolutionInit ==
    mc_Idle /\ cl_Idle /\ bp_Idle /\ bg_Idle /\ smp_Idle /\ gn_Init /\ ev_Init
    /\ ph_Idle /\ sn_Idle /\ sg_Idle

EvolutionNext ==
    \/ InitializePopulation
    \/ AddGenome
    \/ Evolve
    \/ Evaluate
    \/ FitnessRaises
    \/ SelectParents
    \/ Breed

EvolutionSpec == EvolutionInit /\ [][EvolutionNext]_vars

PhaseInit ==
    mc_Idle /\ cl_Idle /\ bp_Idle /\ bg_Idle /\ smp_Idle /\ gn_Init /\ ev_Idle
    /\ sn_Idle /\ sg_Idle /\ ph_Init

PhaseNext ==
    \/ ThermodynamicsClassifies
    \/ ChainClassifies
    \/ DreamClassifies

PhaseSpec == PhaseInit /\ [][PhaseNext]_vars

SnapshotInit ==
    /\ mc_Idle /\ cl_Idle /\ bp_Idle /\ bg_Idle /\ smp_Idle /\ gn_Init
       /\ ev_Idle /\ sg_Idle
    /\ ph_Idle /\ sn_Init

SnapshotNext ==
    \/ SnapshotBegin
    \/ SnapshotStep
    \/ SnapshotReturn
    \/ \E d \in DOMAIN sn_dicts : ModifyGoals(d)
    \/ \E i \in DOMAIN sn_chain : ToDict(sn_chain[i])
    \/ FromDict

SnapshotSpec == SnapshotInit /\ [][SnapshotNext]_vars

SegmentInit ==
    /\ mc_Idle /\ cl_Idle /\ bp_Idle /\ bg_Idle /\ smp_Idle /\ gn_Init
       /\ ev_Idle
    /\ ph_Idle /\ sn_Idle /\ sg_Init

SegmentNext == SegmentGenes

SegmentSpec == SegmentInit /\ [][SegmentNext]_vars

=============================================================================
